---- MODULE Spec2Model ----
(***************************************************************************)
(* Model of the pipeline engine of the FreeNAS CLI: the pipe commands of   *)
(* freenas/cli/commands.py (more, search, find, older_than, newer_than,    *)
(* tail, exclude, sort, limit, select), the property tables and query      *)
(* methods of the share namespaces of freenas/cli/plugins/shares.py, and   *)
(* the two-phase execution of a pipeline (filter folding, then stage       *)
(* chaining) over a namespace's entity set.                                *)
(*                                                                         *)
(* The module also models the session builtins of commands.py (cd and its  *)
(* completion walk, top, alias, unalias) over a namespace tree, and the    *)
(* commands that submit tasks (remote, wait, share import and kill) with   *)
(* save and delete of the nested iSCSI collections of shares.py.           *)
(***************************************************************************)
EXTENDS Integers, Sequences, FiniteSets, TLC

VARIABLES
    ns,        \* context.pipe_cwd: the namespace the pipeline runs in
    store,     \* the entity set behind the namespace (a list of rows)
    pipeline,  \* the filter stages that follow the primary command `show`
    pc,        \* position of the interpreter in the pipeline
    idx,       \* index of the stage being folded or run
    filter,    \* composed query: the conjunction of filter terms
    params,    \* composed query: the query parameters (sort, limit, reverse)
    contrib,   \* what the last serialize_filter returned
    input,     \* value handed to the last stage that ran
    output,    \* value returned by the primary command or the last stage
    error,     \* the failure that aborted the pipeline, if any
    fetched,   \* TRUE once the primary command has asked the data source
    path,      \* context.ml.path: the namespaces from the root to the current one
    prev,      \* the single-slot history: the path `-` jumps to
    aliases,   \* context.ml.aliases
    npc,       \* "idle", "ran" after a builtin ran, "retried" after it ran again
    last,      \* the builtin that ran last, with its input
    before,    \* path and history slot when the last builtin started
    once,      \* path and aliases after the first run of the last builtin
    result,    \* what the last builtin returned or raised
    coll,      \* the nested namespace: iSCSI auth users or iSCSI target luns
    items,     \* parent.entity['users'] / parent.entity['extents']
    server,    \* the same list as the remote store holds it
    estate,    \* "clean", "dirty" or "saving"
    this,      \* the single-entity namespace in hand: its local entity
    tasks,     \* the pending-task table, by task id
    waiting,   \* the task the interpreter is blocked on, 0 when it is not
    step,      \* the command or task event that came last
    returned,  \* what the last command returned or raised
    done,      \* the task that ended last
    prior,     \* the tasks and the list before the last command
    subject,   \* the entity or table that the last call read or wrote
    call,      \* the call that came last, with its arguments
    answer     \* what the last call returned or raised

pipevars == <<ns, store, pipeline, pc, idx, filter, params, contrib, input,
              output, error, fetched>>

navvars == <<path, prev, aliases, npc, last, before, once, result>>

crudvars == <<coll, items, server, estate, this, tasks, waiting, step, returned, done,
              prior>>

callvars == <<subject, call, answer>>

vars == <<ns, store, pipeline, pc, idx, filter, params, contrib, input, output,
          error, fetched, path, prev, aliases, npc, last, before, once, result,
          coll, items, server, estate, this, tasks, waiting, step, returned, done,
          prior, subject, call, answer>>

----------------------------------------------------------------------------
(* Bounds of the model *)

MaxRows == 2

MaxStages == 2

MaxOpargs == 2

(* datetime.now(), in the abstract time unit of parse_timedelta *)
Now == 2

----------------------------------------------------------------------------
(* Values *)

(* Python's None *)
None == "<None>"

(* A literal of the command line: an integer or a string *)
IntArg(n) == [t |-> "int", n |-> n, s |-> ""]

StrArg(s) == [t |-> "str", n |-> 0, s |-> s]

NoneArg == [t |-> "none", n |-> 0, s |-> ""]

(* dict.get(key): None when the key is absent *)
Get(row, f) == IF f \in DOMAIN row THEN row[f] ELSE None

(* What a command returns: a Table, a scalar value or None *)
Table(rows) == [kind |-> "table", rows |-> rows, value |-> None]

Scalar(v) == [kind |-> "value", rows |-> <<>>, value |-> v]

NoValue == [kind |-> "none", rows |-> <<>>, value |-> None]

(* CommandException and the other exceptions a stage can raise *)
NoError == [kind |-> "none", key |-> "", offered |-> <<>>]

Raise(kind) == [kind |-> kind, key |-> "", offered |-> <<>>]

SeqsUpTo(S, n) == UNION {[1..k -> S] : k \in 0..n}

----------------------------------------------------------------------------
(* Namespaces and their property mappings *)

Namespaces == {"nfs", "users"}

(* PropertyMapping default of the `list` flag *)
DefaultList == TRUE

Prop(name, get, list, type) == [name |-> name, get |-> get, list |-> list, type |-> type]

(* BaseSharesNamespace.__init__: the add_property calls, in order *)
BaseSharesProperties ==
    << Prop("name", "name", TRUE, "STRING"),
       Prop("type", "type", FALSE, "STRING"),
       Prop("target", "<get_share_target>", TRUE, "STRING"),
       Prop("parent", None, FALSE, "STRING"),
       Prop("dataset", None, FALSE, "STRING"),
       Prop("path", None, FALSE, "STRING"),
       Prop("enabled", "enabled", TRUE, "BOOLEAN"),
       Prop("immutable", "immutable", FALSE, "BOOLEAN"),
       Prop("owner", "permissions.user", TRUE, "STRING"),
       Prop("group", "permissions.group", TRUE, "STRING"),
       Prop("enable_service", None, FALSE, "BOOLEAN"),
       Prop("delete_dataset", None, FALSE, "BOOLEAN") >>

(* ISCSIUsersNamespace.__init__: the add_property calls, in order *)
ISCSIUsersProperties ==
    << Prop("name", "name", DefaultList, "STRING"),
       Prop("secret", "secret", DefaultList, "STRING"),
       Prop("peer_name", "peer_name", DefaultList, "STRING"),
       Prop("peer_secret", "peer_secret", DefaultList, "STRING") >>

property_mappings(n) ==
    IF n = "nfs" THEN BaseSharesProperties ELSE ISCSIUsersProperties

(* self.primary_key = self.get_mapping('name'), in both namespaces *)
primary_key(n) == "name"

has_property(n, k) ==
    \E i \in 1..Len(property_mappings(n)) : property_mappings(n)[i].name = k

get_mapping(n, k) ==
    LET pm == property_mappings(n)
        i == CHOOSE j \in 1..Len(pm) :
                 /\ pm[j].name = k
                 /\ \A h \in 1..(j - 1) : pm[h].name # k
    IN pm[i]

(* read_value(v, mapping.type) of a string literal read as a STRING *)
read_value(v, type) == v

(* [x.name for x in ns.property_mappings if x.list] *)
ListVisibleNames(n) ==
    LET pm == property_mappings(n)
        F[i \in 0..Len(pm)] ==
            IF i = 0 THEN <<>>
            ELSE IF pm[i].list THEN Append(F[i - 1], pm[i].name) ELSE F[i - 1]
    IN F[Len(pm)]

----------------------------------------------------------------------------
(* Pipe commands: serialize_filter *)

EmptyParams == [k \in {} |-> 0]

(* dict.update: the keys of `new` replace those of `old` *)
Update(old, new) == new @@ old

SerOk(f, p) == [ok |-> TRUE, filter |-> f, params |-> p, error |-> NoError]

SerFail(e) == [ok |-> FALSE, filter |-> <<>>, params |-> EmptyParams, error |-> e]

(* PipeCommand stages that contribute nothing to the query (select, more) *)
NoSerializeFilter == SerOk(<<>>, EmptyParams)

MapOne(n, c) == <<get_mapping(n, c[1]).name, c[2], read_value(c[3], get_mapping(n, c[1]).type)>>

UnknownProperty(n, k) ==
    [kind |-> "unknown_property", key |-> k, offered |-> ListVisibleNames(n)]

map_opargs(opargs, n) ==
    LET F[i \in 0..Len(opargs)] ==
            IF i = 0 THEN [ok |-> TRUE, mapped |-> <<>>, error |-> NoError]
            ELSE IF ~F[i - 1].ok THEN F[i - 1]
            ELSE IF has_property(n, opargs[i][1])
                 THEN [ok |-> TRUE,
                       mapped |-> Append(F[i - 1].mapped, MapOne(n, opargs[i])),
                       error |-> NoError]
                 ELSE [ok |-> FALSE, mapped |-> <<>>,
                       error |-> UnknownProperty(n, opargs[i][1])]
    IN F[Len(opargs)]

(* SearchPipeCommand.serialize_filter, inherited by FindPipeCommand *)
SearchSerializeFilter(n, args, kwargs, opargs) ==
    LET m == map_opargs(opargs, n)
    IN IF ~m.ok THEN SerFail(m.error)
       ELSE IF Len(kwargs) > 0 THEN SerFail(Raise("invalid_syntax"))
       ELSE IF Len(args) > 0 THEN SerFail(Raise("invalid_syntax"))
       ELSE SerOk(m.mapped, EmptyParams)

(* result.append(('nor', (i,))) *)
NorTerm(triple) == <<"nor", <<triple>> >>

(* Variant of ExcludeSerializeFilter that returns the triples unwrapped *)
ExcludeSerializeFilterNoNor(n, args, kwargs, opargs) ==
    LET m == map_opargs(opargs, n)
    IN IF ~m.ok THEN SerFail(m.error)
       ELSE IF Len(kwargs) > 0 THEN SerFail(Raise("invalid_syntax"))
       ELSE IF Len(args) > 0 THEN SerFail(Raise("invalid_syntax"))
       ELSE SerOk(m.mapped, EmptyParams)

ExcludeSerializeFilter(n, args, kwargs, opargs) ==
    LET m == map_opargs(opargs, n)
    IN IF ~m.ok THEN SerFail(m.error)
       ELSE IF Len(kwargs) > 0 THEN SerFail(Raise("invalid_syntax"))
       ELSE IF Len(args) > 0 THEN SerFail(Raise("invalid_syntax"))
       ELSE SerOk([i \in 1..Len(m.mapped) |-> NorTerm(m.mapped[i])], EmptyParams)

(* parse_timedelta of a duration literal *)
parse_timedelta(a) == a.n

OlderThanSerializeFilter(n, args, kwargs, opargs) ==
    IF Len(args) = 0 THEN SerFail(Raise("IndexError"))
    ELSE SerOk(<< <<"timestamp", "!=", NoneArg>>,
                  <<"timestamp", "<=", IntArg(Now - parse_timedelta(args[1]))>> >>,
               EmptyParams)

NewerThanSerializeFilter(n, args, kwargs, opargs) ==
    IF Len(args) = 0 THEN SerFail(Raise("IndexError"))
    ELSE SerOk(<< <<"timestamp", "!=", NoneArg>>,
                  <<"timestamp", ">=", IntArg(Now - parse_timedelta(args[1]))>> >>,
               EmptyParams)

TailSerializeFilter(n, args, kwargs, opargs) ==
    IF Len(args) = 0 THEN SerFail(Raise("missing_number"))
    ELSE IF args[1].t # "int" \/ Len(args) > 1 THEN SerFail(Raise("invalid_syntax"))
    ELSE SerOk(<<>>, ("sort" :> <<StrArg("-timestamp")>>)
                     @@ ("limit" :> args[1].n)
                     @@ ("reverse" :> TRUE))

SortSerializeFilter(n, args, kwargs, opargs) ==
    SerOk(<<>>, "sort" :> args)

LimitSerializeFilter(n, args, kwargs, opargs) ==
    IF Len(args) = 0 THEN SerFail(Raise("missing_number"))
    ELSE IF args[1].t # "int" \/ Len(args) > 1 THEN SerFail(Raise("invalid_syntax"))
    ELSE SerOk(<<>>, "limit" :> args[1].n)

(* Variant of must_be_last in which MorePipeCommand does not set the flag *)
must_be_last_unset(kind) == FALSE

(* MorePipeCommand.__init__ sets must_be_last; no other pipe command does *)
must_be_last(kind) == kind = "more"

----------------------------------------------------------------------------
(* The data source: evaluation of the composed query over the entity set *)

Range(f) == {f[i] : i \in DOMAIN f}

Min(a, b) == IF a < b THEN a ELSE b

(* One (property, operator, value) triple against one row *)
Equals(row, k, v) ==
    IF v.t = "none" THEN k \notin DOMAIN row
    ELSE /\ k \in DOMAIN row
         /\ IF v.t = "str" THEN row[k] = v.s ELSE row[k] = v.n

Match(row, triple) ==
    LET k == triple[1]
        o == triple[2]
        v == triple[3]
    IN CASE o = "==" -> Equals(row, k, v)
         [] o = "!=" -> ~Equals(row, k, v)
         [] o = "<=" -> k \in DOMAIN row /\ row[k] <= v.n
         [] o = ">=" -> k \in DOMAIN row /\ row[k] >= v.n
         [] OTHER -> FALSE

(* A term of the conjunction: a triple, or the negation of a list of triples *)
MatchTerm(row, term) ==
    IF term[1] = "nor"
    THEN \A j \in 1..Len(term[2]) : ~Match(row, term[2][j])
    ELSE Match(row, term)

MatchAll(row, flt) == \A i \in 1..Len(flt) : MatchTerm(row, flt[i])

Filtered(rows, flt) ==
    LET F[i \in 0..Len(rows)] ==
            IF i = 0 THEN <<>>
            ELSE IF MatchAll(rows[i], flt) THEN Append(F[i - 1], rows[i]) ELSE F[i - 1]
    IN F[Len(rows)]

(* A sort key: the property, and whether the `-` prefix asks for descending *)
SortKey(a) ==
    CASE a.s = "-name" -> [key |-> "name", desc |-> TRUE]
      [] a.s = "-timestamp" -> [key |-> "timestamp", desc |-> TRUE]
      [] OTHER -> [key |-> a.s, desc |-> FALSE]

(* Order of the values of the model; a row without the key sorts first *)
ValRank(v) ==
    CASE v = "NFS" -> 1
      [] v = "bob" -> 2
      [] v = "root" -> 3
      [] OTHER -> 4

Rank(row, key) ==
    IF key \notin DOMAIN row THEN 0
    ELSE IF key = "timestamp" THEN 1 + row[key]
    ELSE ValRank(row[key])

(* r1 sorts strictly before r2 under the list of sort keys *)
Before(r1, r2, keys) ==
    \E i \in 1..Len(keys) :
        /\ \A j \in 1..(i - 1) :
               Rank(r1, SortKey(keys[j]).key) = Rank(r2, SortKey(keys[j]).key)
        /\ IF SortKey(keys[i]).desc
           THEN Rank(r1, SortKey(keys[i]).key) > Rank(r2, SortKey(keys[i]).key)
           ELSE Rank(r1, SortKey(keys[i]).key) < Rank(r2, SortKey(keys[i]).key)

Insert(sorted, r, keys) ==
    LET later == {j \in 1..Len(sorted) : Before(r, sorted[j], keys)}
    IN IF later = {} THEN Append(sorted, r)
       ELSE LET j == CHOOSE x \in later : \A y \in later : x <= y
            IN SubSeq(sorted, 1, j - 1) \o <<r>> \o SubSeq(sorted, j, Len(sorted))

Sorted(rows, keys) ==
    LET F[i \in 0..Len(rows)] ==
            IF i = 0 THEN <<>> ELSE Insert(F[i - 1], rows[i], keys)
    IN F[Len(rows)]

Reversed(rows) == [i \in 1..Len(rows) |-> rows[Len(rows) + 1 - i]]

(* The query of a load strategy that hands the composed query to the data  *)
(* source: filter, then sort, then limit, then reverse                     *)
DataSourceQuery(rows, flt, prm) ==
    LET f == Filtered(rows, flt)
        s == IF "sort" \in DOMAIN prm THEN Sorted(f, prm["sort"]) ELSE f
        l == IF "limit" \in DOMAIN prm THEN SubSeq(s, 1, Min(prm["limit"], Len(s))) ELSE s
    IN IF "reverse" \in DOMAIN prm /\ prm["reverse"] THEN Reversed(l) ELSE l

(* ISCSIUsersNamespace.query(params, options): the parent's users list *)
ISCSIUsersQuery(rows, flt, prm) == rows

query(n, rows, flt, prm) ==
    IF n = "users" THEN ISCSIUsersQuery(rows, flt, prm)
    ELSE DataSourceQuery(rows, flt, prm)

(* ListCommand.run: a Table of the namespace's query under the composed query *)
ListCommandRun(n, rows, flt, prm) == Table(query(n, rows, flt, prm))

----------------------------------------------------------------------------
(* Pipe commands: run *)

(* Variant of SearchRun that filters the fetched rows on the client *)
SearchRunFiltering(n, args, kwargs, opargs, in) ==
    IF in.kind = "table" /\ map_opargs(opargs, n).ok
    THEN Table(Filtered(in.rows, map_opargs(opargs, n).mapped))
    ELSE in

SearchRun(n, args, kwargs, opargs, in) == in

OlderThanRun(n, args, kwargs, opargs, in) == in

NewerThanRun(n, args, kwargs, opargs, in) == in

TailRun(n, args, kwargs, opargs, in) == in

ExcludeRun(n, args, kwargs, opargs, in) == in

SortRun(n, args, kwargs, opargs, in) == in

LimitRun(n, args, kwargs, opargs, in) == in

RunOk(v) == [ok |-> TRUE, value |-> v, error |-> NoError]

RunFail(e) == [ok |-> FALSE, value |-> NoValue, error |-> e]

(* Variant of FindRun that takes the last row instead of the first *)
FindRunLast(n, args, kwargs, opargs, in) ==
    IF in.kind = "table"
    THEN IF Len(in.rows) = 0 THEN NoValue
         ELSE IF primary_key(n) \in DOMAIN in.rows[Len(in.rows)]
              THEN Scalar(in.rows[Len(in.rows)][primary_key(n)])
              ELSE NoValue
    ELSE NoValue

(* prop.do_get(first): the KeyError of a row without the key is caught *)
FindRun(n, args, kwargs, opargs, in) ==
    IF in.kind = "table"
    THEN IF Len(in.rows) = 0 THEN NoValue
         ELSE IF primary_key(n) \in DOMAIN in.rows[1]
              THEN Scalar(in.rows[1][primary_key(n)])
              ELSE NoValue
    ELSE NoValue

(* Variant of SelectRun that checks the number of fields only for a Table *)
SelectRunArityOnTable(n, args, kwargs, opargs, in) ==
    IF in.kind = "table"
    THEN IF Len(args) # 1 THEN RunFail(Raise("arity"))
         ELSE RunOk(Table([i \in 1..Len(in.rows) |->
                              [result |-> Get(in.rows[i], args[1].s)]]))
    ELSE RunOk(NoValue)

(* Variant of SelectRun that skips the rows without the field *)
SelectRunDropsAbsent(n, args, kwargs, opargs, in) ==
    IF Len(args) # 1 THEN RunFail(Raise("arity"))
    ELSE IF in.kind = "table"
         THEN LET F[i \in 0..Len(in.rows)] ==
                      IF i = 0 THEN <<>>
                      ELSE IF args[1].s \in DOMAIN in.rows[i]
                           THEN Append(F[i - 1], [result |-> in.rows[i][args[1].s]])
                           ELSE F[i - 1]
              IN RunOk(Table(F[Len(in.rows)]))
         ELSE RunOk(NoValue)

(* result.data = ({'result': x.get(args[0])} for x in input) *)
SelectRun(n, args, kwargs, opargs, in) ==
    IF Len(args) # 1 THEN RunFail(Raise("arity"))
    ELSE IF in.kind = "table"
         THEN RunOk(Table([i \in 1..Len(in.rows) |->
                              [result |-> Get(in.rows[i], args[1].s)]]))
         ELSE RunOk(NoValue)

(* output_less(...); return None *)
MoreRun(n, args, kwargs, opargs, in) == NoValue

----------------------------------------------------------------------------
(* Inputs: entity sets and pipelines *)

(* Rows of the entity sets; a row may lack the primary-key field *)
RowPool(n) ==
    IF n = "nfs"
    THEN {[name |-> "root", type |-> "NFS"], [name |-> "bob", type |-> "NFS"],
          [type |-> "NFS"]}
    ELSE {[name |-> "root", secret |-> "s"], [name |-> "bob", secret |-> "s"],
          [secret |-> "s"]}

Stores(n) == SeqsUpTo(RowPool(n), MaxRows)

Stage(kind, args, kwargs, opargs) ==
    [kind |-> kind, args |-> args, kwargs |-> kwargs, opargs |-> opargs]

Keys == {"name", "type", "nosuch"}

Ops == {"==", "!="}

Vals == {"root", "NFS"}

(* Operator arguments key<op>value as the parser hands them over *)
Comparisons == {<<k, o, StrArg(v)>> : k \in Keys, o \in Ops, v \in Vals}

NameIsRoot == <<"name", "==", StrArg("root")>>

SearchKinds == {"search", "find", "exclude"}

FilterKinds ==
    {"search", "exclude", "older_than", "newer_than", "sort", "limit", "tail"}

(* Stages of the multi-stage pipelines *)
PipeStages ==
    {Stage(k, <<>>, <<>>, <<NameIsRoot>>) : k \in SearchKinds}
    \cup {Stage("limit", <<IntArg(m)>>, <<>>, <<>>) : m \in 1..MaxRows}
    \cup {Stage("search", <<>>, <<>>, << <<"nosuch", "==", StrArg("root")>> >>),
          Stage("tail", <<IntArg(2)>>, <<>>, <<>>),
          Stage("sort", <<StrArg("-name")>>, <<>>, <<>>),
          Stage("older_than", <<IntArg(1)>>, <<>>, <<>>),
          Stage("newer_than", <<IntArg(1)>>, <<>>, <<>>),
          Stage("select", <<StrArg("name")>>, <<>>, <<>>),
          Stage("select", <<>>, <<>>, <<>>),
          Stage("select", <<StrArg("name"), StrArg("type")>>, <<>>, <<>>),
          Stage("more", <<>>, <<>>, <<>>)}

Pipelines == SeqsUpTo(PipeStages, MaxStages)

(* Argument lists of a single stage, well formed and not *)
NumberArgs ==
    {<<>>, <<StrArg("x")>>, <<IntArg(1), IntArg(1)>>}
    \cup {<<IntArg(m)>> : m \in 1..MaxRows}

FieldArgs ==
    {<<>>, <<StrArg("name")>>, <<StrArg("-name")>>, <<StrArg("type")>>,
     <<StrArg("nosuch")>>, <<StrArg("name"), StrArg("type")>>}

BadSyntax ==
    {<< <<StrArg("name")>>, <<>> >>, << <<>>, << <<"key", StrArg("v")>> >> >>}

WideStages ==
    {Stage(k, <<>>, <<>>, o) : k \in SearchKinds, o \in SeqsUpTo(Comparisons, MaxOpargs)}
    \cup {Stage(k, b[1], b[2], o) :
             k \in SearchKinds, b \in BadSyntax, o \in SeqsUpTo(Comparisons, 1)}
    \cup {Stage(k, a, <<>>, <<>>) : k \in {"limit", "tail"}, a \in NumberArgs}
    \cup {Stage(k, a, <<>>, <<>>) : k \in {"sort", "select"}, a \in FieldArgs}
    \cup {Stage(k, a, <<>>, <<>>) :
             k \in {"older_than", "newer_than"}, a \in {<<>>, <<IntArg(1)>>}}
    \cup {Stage("more", <<>>, <<>>, <<>>)}

----------------------------------------------------------------------------
(* The namespace tree and the session builtins: cd, top, alias, unalias *)

(* Bound: the tokens of a `/`-separated path *)
MaxTokens == 2

RootNs == "root"

(* Namespace.name: two children of `system` carry the name ui *)
NsName(n) == IF n = "ui2" THEN "ui" ELSE n

(* Namespace.namespaces(): the children, in order *)
namespaces(n) ==
    CASE n = "root" -> <<"system", "share">>
      [] n = "system" -> <<"ui", "config", "ui2">>
      [] OTHER -> <<>>

Front(s) == SubSeq(s, 1, Len(s) - 1)

Least(S) == CHOOSE i \in S : \A j \in S : i <= j

(* What a builtin returns or raises; ns and prepend say where a walk ended *)
NavOk(n, pre) == [ok |-> TRUE, error |-> NoError, ns |-> n, prepend |-> pre]

NavFail(e) == [ok |-> FALSE, error |-> e, ns |-> None, prepend |-> <<>>]

(* A path typed by the user: a leading `/`, the tokens between the        *)
(* slashes, a trailing `/`                                                 *)
Text(abs, toks, slash) == [abs |-> abs, toks |-> toks, slash |-> slash]

(* len(token) *)
TokLen(tk) ==
    CASE tk = "-" -> 1
      [] tk \in {"..", "ui"} -> 2
      [] OTHER -> 6

(* The session after a builtin: the path and the history slot *)
Session(p, h, r) == [path |-> p, prev |-> h, result |-> r]

(* A navigation step to the path q: the slot keeps the path that is left *)
MoveTo(s, q) ==
    IF q = s.path THEN s ELSE [s EXCEPT !.path = q, !.prev = s.path]

NotFound(tk, n) == [kind |-> "not_found", key |-> tk, offered |-> <<n>>]

(* One token of the resolution algorithm *)
ResolveToken(s, tk) ==
    IF ~s.result.ok THEN s
    ELSE IF tk = ".."
    THEN IF Len(s.path) > 1 THEN MoveTo(s, Front(s.path)) ELSE s
    ELSE IF tk = ""
    THEN MoveTo(s, <<RootNs>>)
    ELSE IF tk = "-"
    THEN MoveTo(s, s.prev)
    ELSE LET cur == s.path[Len(s.path)]
             kids == namespaces(cur)
             hits == {i \in 1..Len(kids) : NsName(kids[i]) = tk}
         IN IF hits = {}
            THEN [s EXCEPT !.result = NavFail(NotFound(tk, cur))]
            ELSE MoveTo(s, Append(s.path, kids[Least(hits)]))

RECURSIVE Resolve(_, _)
Resolve(s, toks) ==
    IF toks = <<>> THEN s
    ELSE Resolve(ResolveToken(s, Head(toks)), Tail(toks))

(* context.ml.process(line): a failed resolution leaves the session alone *)
process(p, h, toks) ==
    LET s == Resolve(Session(p, h, NavOk(None, <<>>)), toks)
    IN IF s.result.ok
       THEN Session(s.path, s.prev, NavOk(s.path[Len(s.path)], <<>>))
       ELSE Session(p, h, s.result)

(* args[0][0] + args[0][1:].replace('/', ' ').strip(): the line handed to  *)
(* the main loop keeps a leading `/` and loses every other slash           *)
CdLine(text) == (IF text.abs THEN <<"">> ELSE <<>>) \o text.toks

(* ChangeNamespaceCommand.run *)
ChangeNamespaceRun(p, h, args, kwargs) ==
    IF kwargs # <<>>
    THEN Session(p, h, NavFail(Raise("syntax")))
    ELSE IF Len(args) > 1
    THEN Session(p, h, NavFail(Raise("syntax")))
    ELSE IF Len(args) = 1
    THEN process(p, h, CdLine(args[1]))
    ELSE Session(p, h, NavOk(None, <<>>))

(* A top that goes up one level *)
TopRunUp(p, h, args, kwargs) ==
    Session(IF Len(p) > 1 THEN Front(p) ELSE p, h, NavOk(None, <<>>))

(* TopCommand.run: context.ml.path = [context.root_ns] *)
TopRun(p, h, args, kwargs) == Session(<<RootNs>>, h, NavOk(None, <<>>))

(* AliasCommand.run: without kwargs it lists the aliases *)
RECURSIVE SetAll(_, _)
SetAll(al, kwargs) ==
    IF kwargs = <<>> THEN al
    ELSE SetAll((kwargs[1][1] :> kwargs[1][2]) @@ al, Tail(kwargs))

AliasRun(al, args, kwargs) == IF kwargs = <<>> THEN al ELSE SetAll(al, kwargs)

(* UnaliasCommand.run *)
RECURSIVE UnaliasRun(_, _, _)
UnaliasRun(al, args, kwargs) ==
    IF args = <<>> THEN al
    ELSE UnaliasRun(IF args[1] \in DOMAIN al
                    THEN [k \in DOMAIN al \ {args[1]} |-> al[k]]
                    ELSE al,
                    Tail(args), kwargs)

(* ChangeNamespaceCommand.complete: the part of the text that is walked.   *)
(* A text ending in `/..` gets a `/`; what follows the last slash is cut   *)
(* off, with last_slash taken before a leading `/` is removed.             *)
WalkedTokens(text) ==
    LET n == Len(text.toks)
        slash == text.slash \/ (text.toks[n] = ".." /\ (n >= 2 \/ text.abs))
    IN IF n = 0 THEN <<>>
       ELSE IF slash THEN text.toks
       ELSE IF n = 1 THEN text.toks
       ELSE IF text.abs /\ TokLen(text.toks[n]) = 1 THEN text.toks
       ELSE Front(text.toks)

(* The state of the walk: ns, path (a list, or path[0] after a leading     *)
(* `/`), old_ns_list and prepend                                           *)
CompleteStart(p, text) ==
    IF text.abs
    THEN [ns |-> RootNs, path |-> <<p[1]>>, islist |-> FALSE, old |-> <<>>,
          prepend |-> <<"/">>]
    ELSE [ns |-> p[Len(p)], path |-> p, islist |-> TRUE, old |-> <<>>,
          prepend |-> <<>>]

(* The walk with a `..` that pops the path at root too *)
CompleteTokenPopsRoot(w, tk) ==
    IF tk = ".."
    THEN LET w1 == IF w.old # <<>>
                   THEN [w EXCEPT !.ns = w.old[Len(w.old)], !.old = Front(w.old)]
                   ELSE IF w.islist
                   THEN [w EXCEPT !.path = Front(w.path),
                                  !.ns = IF Len(w.path) > 1
                                         THEN w.path[Len(w.path) - 1] ELSE None]
                   ELSE w
         IN [w1 EXCEPT !.prepend = Append(w1.prepend, "..")]
    ELSE LET kids == namespaces(w.ns)
             hits == {i \in 1..Len(kids) :
                          kids[i] # w.ns /\ NsName(kids[i]) = tk}
         IN IF hits = {}
            THEN w
            ELSE LET new_ns == kids[Least(hits)]
                 IN [w EXCEPT !.old = Append(w.old, w.ns), !.ns = new_ns,
                              !.prepend = Append(w.prepend, NsName(new_ns))]

(* The walk with a `..` that forgets old_ns_list *)
CompleteTokenNoOldList(w, tk) ==
    IF tk = ".."
    THEN LET w1 == IF w.islist /\ Len(w.path) > 1
                   THEN [w EXCEPT !.path = Front(w.path),
                                  !.ns = w.path[Len(w.path) - 1]]
                   ELSE w
         IN [w1 EXCEPT !.prepend = Append(w1.prepend, "..")]
    ELSE LET kids == namespaces(w.ns)
             hits == {i \in 1..Len(kids) :
                          kids[i] # w.ns /\ NsName(kids[i]) = tk}
         IN IF hits = {}
            THEN w
            ELSE LET new_ns == kids[Least(hits)]
                 IN [w EXCEPT !.old = Append(w.old, w.ns), !.ns = new_ns,
                              !.prepend = Append(w.prepend, NsName(new_ns))]

(* One pseudo_token of the walk *)
CompleteToken(w, tk) ==
    IF tk = ".."
    THEN LET w1 == IF w.old # <<>>
                   THEN [w EXCEPT !.ns = w.old[Len(w.old)], !.old = Front(w.old)]
                   ELSE IF w.islist /\ Len(w.path) > 1
                   THEN [w EXCEPT !.path = Front(w.path),
                                  !.ns = w.path[Len(w.path) - 1]]
                   ELSE w
         IN [w1 EXCEPT !.prepend = Append(w1.prepend, "..")]
    ELSE LET kids == namespaces(w.ns)
             hits == {i \in 1..Len(kids) :
                          kids[i] # w.ns /\ NsName(kids[i]) = tk}
         IN IF hits = {}
            THEN w
            ELSE LET new_ns == kids[Least(hits)]
                 IN [w EXCEPT !.old = Append(w.old, w.ns), !.ns = new_ns,
                              !.prepend = Append(w.prepend, NsName(new_ns))]

RECURSIVE CompleteWalk(_, _)
CompleteWalk(w, toks) ==
    IF toks = <<>> THEN w
    ELSE CompleteWalk(CompleteToken(w, Head(toks)), Tail(toks))

(* ChangeNamespaceCommand.complete: the namespace whose children are       *)
(* offered and the prefix they are offered under                           *)
ChangeNamespaceComplete(p, text) ==
    LET w == CompleteWalk(CompleteStart(p, text), WalkedTokens(text))
    IN NavOk(w.ns, w.prepend)

(* A builtin with its input *)
Builtin(cmd, args, kwargs) == [cmd |-> cmd, args |-> args, kwargs |-> kwargs]

NoBuiltin == Builtin("none", <<>>, <<>>)

NoAliases == [k \in {} |-> ""]

NoSnapshot == [path |-> <<>>, prev |-> <<>>, aliases |-> NoAliases]

(* The session before the first command *)
NavStart ==
    /\ path = <<RootNs>>
    /\ prev = <<RootNs>>
    /\ aliases = NoAliases
    /\ npc = "idle"
    /\ last = NoBuiltin
    /\ before = NoSnapshot
    /\ once = NoSnapshot
    /\ result = NavOk(None, <<>>)

(* The builtin b run in the session (p, h, al) *)
Apply(b, p, h, al) ==
    CASE b.cmd = "cd" ->
           LET s == ChangeNamespaceRun(p, h, b.args, b.kwargs)
           IN [path |-> s.path, prev |-> s.prev, aliases |-> al,
               result |-> s.result]
      [] b.cmd = "top" ->
           LET s == TopRun(p, h, b.args, b.kwargs)
           IN [path |-> s.path, prev |-> s.prev, aliases |-> al,
               result |-> s.result]
      [] b.cmd = "alias" ->
           [path |-> p, prev |-> h, aliases |-> AliasRun(al, b.args, b.kwargs),
            result |-> NavOk(None, <<>>)]
      [] b.cmd = "unalias" ->
           [path |-> p, prev |-> h, aliases |-> UnaliasRun(al, b.args, b.kwargs),
            result |-> NavOk(None, <<>>)]
      [] b.cmd = "complete" ->
           [path |-> p, prev |-> h, aliases |-> al,
            result |-> ChangeNamespaceComplete(p, b.args[1])]

(* Inputs of the builtins *)
NavTokens == {"..", "-", "system", "ui", "config"}

(* a/b/../c and a/b/../.. over the names of the tree *)
LongPaths ==
    {<<a, b, "..", c>> : a \in {"system", "share"}, b \in {"ui", "config"},
                         c \in {"ui", "config", ".."}}

TokenLists == SeqsUpTo(NavTokens, MaxTokens) \cup LongPaths

CdTexts ==
    {Text(a, t, FALSE) : a \in BOOLEAN, t \in TokenLists} \
        {Text(FALSE, <<>>, FALSE)}

CompleteTexts ==
    {Text(a, t, s) : a \in BOOLEAN, t \in TokenLists, s \in BOOLEAN} \
        {Text(a, <<>>, TRUE) : a \in BOOLEAN}

AliasNames == {"us", "ll"}

AliasValues == {"show", "top"}

CdInputs ==
    {Builtin("cd", <<t>>, <<>>) : t \in CdTexts}
    \cup {Builtin("cd", <<>>, <<>>),
          Builtin("cd", <<Text(FALSE, <<"system">>, FALSE)>>, <<<<"us", "show">>>>),
          Builtin("cd", <<Text(FALSE, <<"system">>, FALSE),
                          Text(FALSE, <<"ui">>, FALSE)>>, <<>>)}

AliasInputs ==
    {Builtin("alias", <<>>, kw) :
        kw \in {<<>>} \cup {<<<<n, v>>>> : n \in AliasNames, v \in AliasValues}
              \cup {<<<<"us", v>>, <<"ll", v>>>> : v \in AliasValues}}

UnaliasInputs == {Builtin("unalias", a, <<>>) : a \in SeqsUpTo(AliasNames, 2)}

CompleteInputs == {Builtin("complete", <<t>>, <<>>) : t \in CompleteTexts}

----------------------------------------------------------------------------
(* Entity CRUD on the nested iSCSI collections, and the task bridge *)

(* Bound: the tasks submitted in one session *)
MaxTasks == 2

(* A code fragment between backquotes *)
QuoteArg == [t |-> "quote", n |-> 0, s |-> ""]

(* parent.entity['users'] / parent.entity['extents']: None or a list *)
NoneList == [isnone |-> TRUE, rows |-> <<>>]

List(rows) == [isnone |-> FALSE, rows |-> rows]

(* The key of the primary_key mapping of the nested namespace *)
PkName(c) == IF c = "users" THEN "name" ELSE "number"

(* required_props: every element is a property or a list of alternatives *)
required_props(n) ==
    CASE n = "nfs" -> <<{"name"}, {"parent", "dataset", "path"}>>
      [] n = "users" -> <<{"name"}, {"secret"}>>
      [] n = "luns" -> <<{"number"}, {"name"}>>

MissingRequired(k) == [kind |-> "missing_required", key |-> k, offered |-> <<>>]

(* What a command does: what it returns or raises, the tasks it submits,   *)
(* the task it waits for and the list it leaves in the parent entity       *)
Outcome(ok, e, submit, promise, wait, its) ==
    [ok |-> ok, error |-> e, submit |-> submit, promise |-> promise,
     wait |-> wait, items |-> its]

CmdFail(e, its) == Outcome(FALSE, e, <<>>, "none", 0, its)

CmdReturn(its) == Outcome(TRUE, NoError, <<>>, "none", 0, its)

(* tid = context.submit_task(name, ...); return TaskPromise(context, tid) *)
CmdSubmit(name, promise, its) == Outcome(TRUE, NoError, <<name>>, promise, 0, its)

(* context.wait_for_task_with_progress(tid) *)
CmdWait(tid, its) == Outcome(TRUE, NoError, <<>>, "none", tid, its)

(* raise CommandException(...) about the argument k *)
CommandException(k) == [kind |-> "CommandException", key |-> k, offered |-> <<>>]

(* An import that asks for the path only after it has submitted *)
ImportShareRunLatePathCheck(its, args, kwargs) ==
    IF Len(args) = 0
    THEN CmdFail(CommandException("name"), its)
    ELSE CmdSubmit("share.import", "entity", its)

(* ImportShareCommand.run *)
ImportShareRun(its, args, kwargs) ==
    IF Len(args) = 0
    THEN CmdFail(CommandException("name"), its)
    ELSE IF Get(kwargs, "path") \in {None, ""}
    THEN CmdFail(CommandException("path"), its)
    ELSE CmdSubmit("share.import", "entity", its)

(* KillConnectionCommand.run: args[0] raises IndexError without arguments *)
KillConnectionRun(its, args, kwargs) ==
    IF Len(args) = 0
    THEN CmdFail(Raise("IndexError"), its)
    ELSE CmdSubmit("share.terminate_connection", "task", its)

(* A remote that submits its fragment twice *)
RemoteRunTwice(its, args, kwargs) ==
    IF Len(args) < 1 \/ args[1].t # "quote"
    THEN CmdFail(Raise("syntax"), its)
    ELSE Outcome(TRUE, NoError, <<"cli.eval.ast", "cli.eval.ast">>, "task", 0, its)

(* RemoteCommand.run *)
RemoteRun(its, args, kwargs) ==
    IF Len(args) < 1 \/ args[1].t # "quote"
    THEN CmdFail(Raise("syntax"), its)
    ELSE CmdSubmit("cli.eval.ast", "task", its)

(* WaitCommand.run; last_task_id = 0 stands for no _last_task_id *)
WaitRun(its, args, kwargs, last_task_id) ==
    IF args # <<>>
    THEN IF args[1].t = "int"
         THEN CmdWait(args[1].n, its)
         ELSE CmdFail(Raise("syntax"), its)
    ELSE IF last_task_id = 0
    THEN CmdReturn(its)
    ELSE CmdWait(last_task_id, its)

(* TaskBasedSaveMixin.save of the parent entity: one update task *)
ParentSave(its) == CmdSubmit("update", "entity", its)

(* The indexes of the entries whose key k has the value v *)
Hits(its, k, v) == {i \in 1..Len(its.rows) : its.rows[i][k] = v}

(* first_or_default over None, or update on the None it returned *)
Crash(kind, its) == CmdFail(Raise(kind), its)

(* A save that leaves the entry of the list as it was *)
ISCSIUsersSaveNoUpdate(its, e, new) ==
    IF new
    THEN ParentSave(List(Append(its.rows, e)))
    ELSE IF its.isnone
    THEN Crash("TypeError", its)
    ELSE IF Hits(its, "name", e.name) = {}
    THEN Crash("AttributeError", its)
    ELSE ParentSave(its)

(* ISCSIUsersNamespace.save *)
ISCSIUsersSave(its, e, new) ==
    IF new
    THEN ParentSave(List(Append(its.rows, e)))
    ELSE IF its.isnone
    THEN Crash("TypeError", its)
    ELSE IF Hits(its, "name", e.name) = {}
    THEN Crash("AttributeError", its)
    ELSE LET i == Least(Hits(its, "name", e.name))
         IN ParentSave(List([its.rows EXCEPT ![i] = e @@ its.rows[i]]))

(* ISCSIUsersNamespace.delete *)
ISCSIUsersDelete(its, e) ==
    IF its.isnone
    THEN Crash("TypeError", its)
    ELSE ParentSave(List(SelectSeq(its.rows, LAMBDA a : a.name # e.name)))

(* ISCSITargetMapingNamespace.save *)
ISCSITargetMapingSave(its, e, new) ==
    IF new
    THEN ParentSave(List(Append(its.rows, e)))
    ELSE IF Hits(its, "number", e.number) = {}
    THEN Crash("AttributeError", its)
    ELSE LET i == Least(Hits(its, "number", e.number))
         IN ParentSave(List([its.rows EXCEPT ![i] = e @@ its.rows[i]]))

(* ISCSITargetMapingNamespace.delete *)
ISCSITargetMapingDelete(its, e) ==
    ParentSave(List(SelectSeq(its.rows, LAMBDA a : a.number # e.number)))

(* save and delete of the nested namespace c *)
NestedSave(c, its, e, new) ==
    IF c = "users" THEN ISCSIUsersSave(its, e, new)
    ELSE ISCSITargetMapingSave(its, e, new)

NestedDelete(c, its, e) ==
    IF c = "users" THEN ISCSIUsersDelete(its, e)
    ELSE ISCSITargetMapingDelete(its, e)

(* The required properties that kwargs leaves out *)
Missing(n, kwargs) ==
    {i \in 1..Len(required_props(n)) : required_props(n)[i] \cap DOMAIN kwargs = {}}

(* CreateEntityCommand.run: the required properties, then save(new=True);  *)
(* a share is created by a task of its own                                 *)
CreateEntityRun(n, its, args, kwargs) ==
    IF Missing(n, kwargs) # {}
    THEN CmdFail(MissingRequired(
             CHOOSE k \in required_props(n)[Least(Missing(n, kwargs))] : TRUE), its)
    ELSE IF n = "nfs"
    THEN CmdSubmit("share.create", "entity", its)
    ELSE NestedSave(n, its, kwargs, TRUE)

(* A task of the pending-task table *)
Task(name, what, payload, edits) ==
    [name |-> name, state |-> "EXECUTING", what |-> what, payload |-> payload,
     edits |-> edits]

NoTask == [name |-> "none", state |-> "none", what |-> "none",
           payload |-> NoneList, edits |-> <<>>]

(* The single-entity namespace in hand: its local copy of the entity and   *)
(* the primary-key value it was loaded under                               *)
This(e, k) == [has |-> TRUE, entity |-> e, key |-> k]

NoThis == [has |-> FALSE, entity |-> <<>>, key |-> <<>>]

(* A dispatched command with its input *)
Command(name, n, args, kwargs) ==
    [name |-> name, ns |-> n, args |-> args, kwargs |-> kwargs]

NoCommand == Command("none", "none", <<>>, <<>>)

NoReturn == [ok |-> TRUE, error |-> NoError, promise |-> "none", tid |-> 0]

(* A call of a command or of a function of a plugin, with its arguments *)
Call(name, args) == [name |-> name, args |-> args]

(* Before the first call *)
CallStart ==
    /\ subject = <<>>
    /\ call = Call("none", <<>>)
    /\ answer = NoError

(* The nested collection before the first command *)
CrudStart ==
    /\ coll = "users"
    /\ items = NoneList
    /\ server = NoneList
    /\ estate = "clean"
    /\ this = NoThis
    /\ tasks = <<>>
    /\ waiting = 0
    /\ step = NoCommand
    /\ returned = NoReturn
    /\ done = NoTask
    /\ prior = [ntasks |-> 0, items |-> NoneList]

(* Inputs of the commands *)
UserNames == {"root", "bob"}

UserSecrets == {"s", "t"}

LunNumbers == {1, 2}

LunNames == {"x", "y"}

InitialLists(c) ==
    IF c = "users"
    THEN {NoneList, List(<<>>),
          List(<<[name |-> "root", secret |-> "s"]>>),
          List(<<[name |-> "root", secret |-> "s"], [name |-> "bob", secret |-> "s"]>>)}
    ELSE {List(<<>>),
          List(<<[number |-> 1, name |-> "x"]>>),
          List(<<[number |-> 1, name |-> "x"], [number |-> 2, name |-> "x"]>>)}

SetInputs(c) ==
    IF c = "users"
    THEN {<<"secret", v>> : v \in UserSecrets} \cup {<<"name", v>> : v \in UserNames}
    ELSE {<<"name", v>> : v \in LunNames} \cup {<<"number", v>> : v \in LunNumbers}

CreateKwargs(n) ==
    CASE n = "users" ->
           {[name |-> v, secret |-> "s"] : v \in UserNames}
           \cup {[name |-> "root"], [secret |-> "s"], <<>>}
      [] n = "luns" ->
           {[number |-> v, name |-> "x"] : v \in LunNumbers}
           \cup {[number |-> 1], [name |-> "x"]}
      [] n = "nfs" ->
           {[name |-> "sh", path |-> "/mnt/x"], [name |-> "sh", dataset |-> "tank/x"],
            [name |-> "sh"], [path |-> "/mnt/x"]}

ImportKwargs == {<<>>, [path |-> ""], [path |-> "/mnt/x"], [dataset |-> "tank/x"]}

----------------------------------------------------------------------------
(* The interpreter *)

Start(pipes) ==
    /\ ns \in Namespaces
    /\ store = <<>>
    /\ pipeline \in pipes
    /\ pc = "compose"
    /\ idx = 0
    /\ filter = <<>>
    /\ params = EmptyParams
    /\ contrib = NoSerializeFilter
    /\ input = NoValue
    /\ output = NoValue
    /\ error = NoError
    /\ fetched = FALSE
    /\ NavStart
    /\ CrudStart
    /\ CallStart

Init == Start(Pipelines)

StageInit == Start({<<s>> : s \in WideStages})

Cur == pipeline[idx]

(* A stage flagged must-be-last may only be the final stage *)
CheckComposition ==
    /\ pc = "compose"
    /\ IF \E i \in 1..(Len(pipeline) - 1) : must_be_last(pipeline[i].kind)
       THEN pc' = "failed" /\ error' = Raise("composition") /\ idx' = idx
       ELSE pc' = "fold" /\ error' = error /\ idx' = 1
    /\ UNCHANGED <<ns, store, pipeline, filter, params, contrib, input, output, fetched>>
    /\ UNCHANGED navvars
    /\ UNCHANGED crudvars
    /\ UNCHANGED callvars

(* Filter folding: the stage's contribution joins the composed query *)
Fold(ret) ==
    /\ contrib' = ret
    /\ IF ret.ok
       THEN /\ filter' = filter \o ret.filter
            /\ params' = Update(params, ret.params)
            /\ idx' = idx + 1
            /\ UNCHANGED <<pc, error>>
       ELSE /\ pc' = "failed"
            /\ error' = ret.error
            /\ UNCHANGED <<filter, params, idx>>
    /\ UNCHANGED <<ns, store, pipeline, input, output, fetched>>
    /\ UNCHANGED navvars
    /\ UNCHANGED crudvars
    /\ UNCHANGED callvars

Folding(kinds) == pc = "fold" /\ idx <= Len(pipeline) /\ Cur.kind \in kinds

FoldSearch ==
    /\ Folding({"search", "find"})
    /\ Fold(SearchSerializeFilter(ns, Cur.args, Cur.kwargs, Cur.opargs))

FoldExclude ==
    /\ Folding({"exclude"})
    /\ Fold(ExcludeSerializeFilter(ns, Cur.args, Cur.kwargs, Cur.opargs))

FoldOlderThan ==
    /\ Folding({"older_than"})
    /\ Fold(OlderThanSerializeFilter(ns, Cur.args, Cur.kwargs, Cur.opargs))

FoldNewerThan ==
    /\ Folding({"newer_than"})
    /\ Fold(NewerThanSerializeFilter(ns, Cur.args, Cur.kwargs, Cur.opargs))

FoldTail ==
    /\ Folding({"tail"})
    /\ Fold(TailSerializeFilter(ns, Cur.args, Cur.kwargs, Cur.opargs))

FoldSort ==
    /\ Folding({"sort"})
    /\ Fold(SortSerializeFilter(ns, Cur.args, Cur.kwargs, Cur.opargs))

FoldLimit ==
    /\ Folding({"limit"})
    /\ Fold(LimitSerializeFilter(ns, Cur.args, Cur.kwargs, Cur.opargs))

FoldNone ==
    /\ Folding({"select", "more"})
    /\ Fold(NoSerializeFilter)

(* The primary command `show` loads the entity set under the composed query *)
RunPrimary ==
    /\ pc = "fold"
    /\ idx = Len(pipeline) + 1
    /\ \E rows \in Stores(ns) :
           /\ store' = rows
           /\ output' = ListCommandRun(ns, rows, filter, params)
    /\ fetched' = TRUE
    /\ idx' = 1
    /\ pc' = IF Len(pipeline) = 0 THEN "done" ELSE "run"
    /\ UNCHANGED <<ns, pipeline, filter, params, contrib, input, error>>
    /\ UNCHANGED navvars
    /\ UNCHANGED crudvars
    /\ UNCHANGED callvars

(* Stage chaining: the stage consumes the previous output *)
Running(kinds) == pc = "run" /\ idx <= Len(pipeline) /\ Cur.kind \in kinds

Chain(ret) ==
    /\ input' = output
    /\ output' = ret.value
    /\ error' = ret.error
    /\ idx' = idx + 1
    /\ pc' = IF ~ret.ok THEN "failed"
             ELSE IF idx = Len(pipeline) THEN "done" ELSE "run"
    /\ UNCHANGED <<ns, store, pipeline, filter, params, contrib, fetched>>
    /\ UNCHANGED navvars
    /\ UNCHANGED crudvars
    /\ UNCHANGED callvars

FilterRun(kind, n, args, kwargs, opargs, in) ==
    CASE kind = "search" -> SearchRun(n, args, kwargs, opargs, in)
      [] kind = "exclude" -> ExcludeRun(n, args, kwargs, opargs, in)
      [] kind = "older_than" -> OlderThanRun(n, args, kwargs, opargs, in)
      [] kind = "newer_than" -> NewerThanRun(n, args, kwargs, opargs, in)
      [] kind = "sort" -> SortRun(n, args, kwargs, opargs, in)
      [] kind = "limit" -> LimitRun(n, args, kwargs, opargs, in)
      [] kind = "tail" -> TailRun(n, args, kwargs, opargs, in)

RunFilter ==
    /\ Running(FilterKinds)
    /\ Chain(RunOk(FilterRun(Cur.kind, ns, Cur.args, Cur.kwargs, Cur.opargs, output)))

RunFind ==
    /\ Running({"find"})
    /\ Chain(RunOk(FindRun(ns, Cur.args, Cur.kwargs, Cur.opargs, output)))

RunSelect ==
    /\ Running({"select"})
    /\ Chain(SelectRun(ns, Cur.args, Cur.kwargs, Cur.opargs, output))

RunMore ==
    /\ Running({"more"})
    /\ Chain(RunOk(MoreRun(ns, Cur.args, Cur.kwargs, Cur.opargs, output)))

Next ==
    \/ CheckComposition
    \/ FoldSearch
    \/ FoldExclude
    \/ FoldOlderThan
    \/ FoldNewerThan
    \/ FoldTail
    \/ FoldSort
    \/ FoldLimit
    \/ FoldNone
    \/ RunPrimary
    \/ RunFilter
    \/ RunFind
    \/ RunSelect
    \/ RunMore

(* Pipelines of up to MaxStages stages *)
Spec == Init /\ [][Next]_vars

(* Single stages with every shape of argument list *)
StageSpec == StageInit /\ [][Next]_vars

----------------------------------------------------------------------------
(* The session: builtins run one after the other, each possibly retried *)

Run(b) ==
    /\ npc = "idle"
    /\ LET r == Apply(b, path, prev, aliases)
       IN /\ path' = r.path
          /\ prev' = r.prev
          /\ aliases' = r.aliases
          /\ result' = r.result
          /\ once' = [path |-> r.path, prev |-> r.prev, aliases |-> r.aliases]
    /\ before' = [path |-> path, prev |-> prev, aliases |-> aliases]
    /\ last' = b
    /\ npc' = "ran"
    /\ UNCHANGED pipevars
    /\ UNCHANGED crudvars
    /\ UNCHANGED callvars

RunCd == \E b \in CdInputs : Run(b)

RunTop == Run(Builtin("top", <<>>, <<>>))

RunAlias == \E b \in AliasInputs : Run(b)

RunUnalias == \E b \in UnaliasInputs : Run(b)

RunComplete == \E b \in CompleteInputs : Run(b)

(* The same builtin with the same input, a second time in a row *)
Retry ==
    /\ npc = "ran"
    /\ last.cmd \in {"cd", "top", "alias", "unalias"}
    /\ LET r == Apply(last, path, prev, aliases)
       IN /\ path' = r.path
          /\ prev' = r.prev
          /\ aliases' = r.aliases
          /\ result' = r.result
    /\ npc' = "retried"
    /\ UNCHANGED <<last, before, once>>
    /\ UNCHANGED pipevars
    /\ UNCHANGED crudvars
    /\ UNCHANGED callvars

(* The main loop is back at the prompt *)
Prompt ==
    /\ npc \in {"ran", "retried"}
    /\ npc' = "idle"
    /\ last' = NoBuiltin
    /\ before' = NoSnapshot
    /\ once' = NoSnapshot
    /\ result' = NavOk(None, <<>>)
    /\ UNCHANGED <<path, prev, aliases>>
    /\ UNCHANGED pipevars
    /\ UNCHANGED crudvars
    /\ UNCHANGED callvars

PipeIdle ==
    /\ ns = "nfs"
    /\ store = <<>>
    /\ pipeline = <<>>
    /\ pc = "idle"
    /\ idx = 0
    /\ filter = <<>>
    /\ params = EmptyParams
    /\ contrib = NoSerializeFilter
    /\ input = NoValue
    /\ output = NoValue
    /\ error = NoError
    /\ fetched = FALSE

NavInit == PipeIdle /\ NavStart /\ CrudStart /\ CallStart

NavNext ==
    \/ RunCd
    \/ RunTop
    \/ RunAlias
    \/ RunUnalias
    \/ RunComplete
    \/ Retry
    \/ Prompt

(* The session builtins over the namespace tree *)
NavSpec == NavInit /\ [][NavNext]_vars

----------------------------------------------------------------------------
(* The task bridge: commands submit tasks, the remote side ends them *)

(* The command c with the outcome out; edits is the entity it is about *)
Exec(c, out, edits) ==
    /\ waiting = 0
    /\ Len(tasks) + Len(out.submit) <= MaxTasks
    /\ step' = c
    /\ prior' = [ntasks |-> Len(tasks), items |-> items]
    /\ tasks' = tasks \o [i \in 1..Len(out.submit) |->
                             Task(out.submit[i], c.name, out.items, edits)]
    /\ returned' = [ok |-> out.ok, error |-> out.error, promise |-> out.promise,
               tid |-> IF out.promise = "none" THEN 0
                       ELSE Len(tasks) + Len(out.submit)]
    /\ waiting' = IF out.wait \in 1..Len(tasks) /\ tasks[out.wait].state = "EXECUTING"
                  THEN out.wait ELSE 0
    /\ items' = out.items
    /\ done' = NoTask
    /\ UNCHANGED <<coll, server>>
    /\ UNCHANGED pipevars
    /\ UNCHANGED navvars
    /\ UNCHANGED callvars

Import ==
    \E args \in {<<>>, <<StrArg("sh")>>}, kwargs \in ImportKwargs :
        /\ Exec(Command("import", "nfs", args, kwargs),
                ImportShareRun(items, args, kwargs), <<>>)
        /\ UNCHANGED <<estate, this>>

Kill ==
    \E args \in {<<>>, <<StrArg("10.0.0.1")>>} :
        /\ Exec(Command("kill", "nfs", args, <<>>),
                KillConnectionRun(items, args, <<>>), <<>>)
        /\ UNCHANGED <<estate, this>>

Remote ==
    \E args \in {<<>>, <<QuoteArg>>, <<StrArg("show")>>} :
        /\ Exec(Command("remote", "none", args, <<>>),
                RemoteRun(items, args, <<>>), <<>>)
        /\ UNCHANGED <<estate, this>>

Wait ==
    \E args \in {<<>>, <<StrArg("abc")>>} \cup {<<IntArg(t)>> : t \in 1..Len(tasks)} :
        /\ Exec(Command("wait", "none", args, <<>>),
                WaitRun(items, args, <<>>, Len(tasks)), <<>>)
        /\ UNCHANGED <<estate, this>>

(* create in the shares namespace *)
CreateShare ==
    \E kwargs \in CreateKwargs("nfs") :
        /\ Exec(Command("create", "nfs", <<>>, kwargs),
                CreateEntityRun("nfs", items, <<>>, kwargs), kwargs)
        /\ UNCHANGED <<estate, this>>

(* create in the nested namespace *)
CreateNested ==
    \E kwargs \in CreateKwargs(coll) :
        LET out == CreateEntityRun(coll, items, <<>>, kwargs)
        IN /\ estate # "saving"
           /\ Exec(Command("create", coll, <<>>, kwargs), out, kwargs)
           /\ estate' = IF out.ok THEN "saving" ELSE estate
           /\ UNCHANGED this

(* cd into the single-entity namespace of the i-th entity *)
Select ==
    \E i \in 1..Len(items.rows) :
        /\ estate = "clean"
        /\ Exec(Command("select", coll, <<>>, <<>>), CmdReturn(items), <<>>)
        /\ this' = This(items.rows[i], items.rows[i][PkName(coll)])
        /\ UNCHANGED estate

(* set <property>=<value> on the local copy *)
Set ==
    \E kv \in SetInputs(coll) :
        /\ this.has
        /\ estate # "saving"
        /\ Exec(Command("set", coll, <<>>, <<kv>>), CmdReturn(items), <<>>)
        /\ this' = This([this.entity EXCEPT ![kv[1]] = kv[2]], this.key)
        /\ estate' = "dirty"

Save ==
    LET out == NestedSave(coll, items, this.entity, FALSE)
    IN /\ this.has
       /\ estate = "dirty"
       /\ Exec(Command("save", coll, <<>>, <<>>), out, this.entity)
       /\ estate' = IF out.ok THEN "saving" ELSE estate
       /\ UNCHANGED this

Delete ==
    LET out == NestedDelete(coll, items, this.entity)
    IN /\ this.has
       /\ estate # "saving"
       /\ Exec(Command("delete", coll, <<>>, <<>>), out, this.entity)
       /\ estate' = IF out.ok THEN "saving" ELSE estate
       /\ UNCHANGED this

(* The remote side ends the task t *)
TaskEnds(t, state) ==
    /\ t \in 1..Len(tasks)
    /\ tasks[t].state = "EXECUTING"
    /\ tasks' = [tasks EXCEPT ![t].state = state]
    /\ done' = tasks[t]
    /\ step' = Command(state, "none", <<>>, <<>>)
    /\ waiting' = IF waiting = t THEN 0 ELSE waiting
    /\ UNCHANGED <<coll, returned, prior>>
    /\ UNCHANGED pipevars
    /\ UNCHANGED navvars
    /\ UNCHANGED callvars

(* Success: the local entity is replaced by the server-confirmed state *)
TaskFinished ==
    \E t \in 1..Len(tasks) :
        /\ TaskEnds(t, "FINISHED")
        /\ IF tasks[t].name = "update"
           THEN /\ server' = tasks[t].payload
                /\ items' = tasks[t].payload
                /\ estate' = "clean"
                /\ this' = IF tasks[t].what = "delete" THEN NoThis
                           ELSE IF this.has
                           THEN This(this.entity, this.entity[PkName(coll)])
                           ELSE this
           ELSE UNCHANGED <<server, items, estate, this>>

(* Failure: the local edits are retained *)
TaskFailed ==
    \E t \in 1..Len(tasks) :
        /\ TaskEnds(t, "FAILED")
        /\ estate' = IF tasks[t].name = "update" THEN "dirty" ELSE estate
        /\ UNCHANGED <<server, items, this>>

TaskInit == PipeIdle /\ NavStart /\ CrudStart /\ CallStart

TaskNext ==
    \/ Import
    \/ Kill
    \/ Remote
    \/ Wait
    \/ CreateShare
    \/ TaskFinished
    \/ TaskFailed

(* The commands that submit tasks, and the tasks' ends *)
TaskSpec == TaskInit /\ [][TaskNext]_vars

CrudStored ==
    /\ coll \in {"users", "luns"}
    /\ items \in InitialLists(coll)
    /\ server = items
    /\ estate = "clean"
    /\ this = NoThis
    /\ tasks = <<>>
    /\ waiting = 0
    /\ step = NoCommand
    /\ returned = NoReturn
    /\ done = NoTask
    /\ prior = [ntasks |-> 0, items |-> NoneList]

CrudInit == PipeIdle /\ NavStart /\ CrudStored /\ CallStart

CrudNext ==
    \/ CreateNested
    \/ Select
    \/ Set
    \/ Save
    \/ Delete
    \/ TaskFinished
    \/ TaskFailed

(* Create, edit, save and delete in a nested collection *)
CrudSpec == CrudInit /\ [][CrudNext]_vars

----------------------------------------------------------------------------
(* Properties *)

(* The stage that ran last, once the chaining phase has run one *)
HasRun == fetched /\ idx > 1

Last == pipeline[idx - 1]

(* The first stage has been through serialize_filter *)
FirstFolded == Len(pipeline) >= 1 /\ (idx > 1 \/ fetched)

FirstFoldFailed == Len(pipeline) >= 1 /\ pc = "failed" /\ ~fetched /\ idx = 1

First == pipeline[1]

(* C1: the run step of search, exclude, older_than, newer_than, sort,      *)
(* limit/head and tail returns its input unchanged, whatever the input:    *)
(* these stages act only through what serialize_filter contributes.        *)
C1_FilterRunReturnsInput ==
    (HasRun /\ Last.kind \in FilterKinds) =>
        /\ output = input
        /\ error = NoError

(* A search stage has run over rows that its comparison does not match *)
C1_Witness ==
    /\ HasRun
    /\ Last.kind = "search"
    /\ Last.opargs = <<NameIsRoot>>
    /\ input.kind = "table"
    /\ \E i \in 1..Len(input.rows) : ~Match(input.rows[i], NameIsRoot)

(* The rows `show | exclude c` returns over the current entity set *)
ExcludeRows(c) ==
    ListCommandRun(ns, store,
                   ExcludeSerializeFilter(ns, <<>>, <<>>, <<c>>).filter,
                   EmptyParams).rows

(* C2: for a known property key and a value v, the rows kept by            *)
(* `exclude key==v` and the rows kept by `search key==v` over the same     *)
(* entity set are disjoint and together make up the whole set.             *)
C2_SearchExcludePartition ==
    (/\ pc = "done"
     /\ Len(pipeline) = 1
     /\ First.kind = "search"
     /\ Len(First.opargs) = 1
     /\ First.opargs[1][2] = "==") =>
        LET S == output.rows
            E == ExcludeRows(First.opargs[1])
        IN /\ Range(S) \cap Range(E) = {}
           /\ Range(S) \cup Range(E) = Range(store)
           /\ Len(S) + Len(E) = Len(store)

(* C3: `limit n` followed by any further stages yields at most n rows.     *)
C3_LimitBoundsResult ==
    (/\ fetched
     /\ pc \in {"run", "done"}
     /\ Len(pipeline) >= 1
     /\ First.kind = "limit"
     /\ output.kind = "table") =>
        Len(output.rows) <= First.args[1].n

(* C4: search comparisons followed by `limit n` return at most n rows,     *)
(* each of which satisfies every comparison.                               *)
C4_SearchThenLimit ==
    (/\ pc = "done"
     /\ Len(pipeline) = 2
     /\ pipeline[1].kind = "search"
     /\ pipeline[2].kind = "limit") =>
        /\ output.kind = "table"
        /\ Len(output.rows) <= pipeline[2].args[1].n
        /\ \A i \in 1..Len(output.rows) :
               \A j \in 1..Len(pipeline[1].opargs) :
                   Match(output.rows[i], pipeline[1].opargs[j])

MoreBeforeEnd == \E i \in 1..(Len(pipeline) - 1) : pipeline[i].kind = "more"

(* C5: a pipeline in which `more` is followed by a further stage is        *)
(* rejected with a composition error before anything is folded or fetched; *)
(* an accepted pipeline has at most one `more`, and only as its last stage.*)
C5_MustBeLastRejected ==
    /\ MoreBeforeEnd =>
           /\ ~fetched
           /\ pc \in {"compose", "failed"}
           /\ pc = "failed" => error.kind = "composition"
           /\ filter = <<>> /\ params = EmptyParams /\ output = NoValue
    /\ (pc # "compose" /\ error.kind # "composition") =>
           /\ \A i \in 1..Len(pipeline) :
                  pipeline[i].kind = "more" => i = Len(pipeline)
           /\ Cardinality({i \in 1..Len(pipeline) : pipeline[i].kind = "more"}) <= 1

(* `more | <stage>` has been rejected *)
C5_Witness ==
    /\ Len(pipeline) >= 2
    /\ pipeline[1].kind = "more"
    /\ pc = "failed"
    /\ error.kind = "composition"

(* C6: select given zero or more than one field name fails with an arity   *)
(* error and produces no result, for a Table input and for any other.      *)
C6_SelectArity ==
    (HasRun /\ Last.kind = "select" /\ Len(Last.args) # 1) =>
        /\ pc = "failed"
        /\ error.kind = "arity"
        /\ output = NoValue

(* select with two field names has failed on an input that is not a Table *)
C6_Witness ==
    /\ HasRun
    /\ Last.kind = "select"
    /\ Len(Last.args) = 2
    /\ input.kind # "table"
    /\ error.kind = "arity"

(* C7: `select f` over a Table yields a single-column Table with one row   *)
(* per input row, in order, holding that row's field f (None when the row  *)
(* has no field f).                                                        *)
C7_SelectProjects ==
    (HasRun /\ Last.kind = "select" /\ Len(Last.args) = 1 /\ input.kind = "table") =>
        /\ pc # "failed"
        /\ output.kind = "table"
        /\ Len(output.rows) = Len(input.rows)
        /\ \A i \in 1..Len(input.rows) :
               /\ DOMAIN output.rows[i] = {"result"}
               /\ output.rows[i].result =
                      IF Last.args[1].s \in DOMAIN input.rows[i]
                      THEN input.rows[i][Last.args[1].s]
                      ELSE None

(* select name has run over two rows of which the first has no name *)
C7_Witness ==
    /\ HasRun
    /\ Last.kind = "select"
    /\ Last.args = <<StrArg("name")>>
    /\ input.kind = "table"
    /\ Len(input.rows) = 2
    /\ "name" \notin DOMAIN input.rows[1]
    /\ "name" \in DOMAIN input.rows[2]

(* C8: find returns the primary-key value of the first row of its Table    *)
(* input, and None without an error when the Table is empty, when the      *)
(* first row has no primary-key field, or when the input is not a Table.   *)
C8_FindFirstKey ==
    (HasRun /\ Last.kind = "find") =>
        /\ pc # "failed"
        /\ error = NoError
        /\ output =
               IF input.kind = "table" /\ Len(input.rows) > 0
                  /\ "name" \in DOMAIN input.rows[1]
               THEN Scalar(input.rows[1]["name"])
               ELSE NoValue

(* find has returned the key of a first row that differs from the last row *)
C8_Witness ==
    /\ HasRun
    /\ Last.kind = "find"
    /\ input.kind = "table"
    /\ Len(input.rows) = 2
    /\ "name" \in DOMAIN input.rows[1]
    /\ output = Scalar(input.rows[1]["name"])
    /\ input.rows[2] # input.rows[1]

(* C9: a comparison of search, find or exclude that names a property the   *)
(* namespace does not have fails with an unknown-property error listing    *)
(* the names of the list-visible property mappings, and contributes no     *)
(* filter term; every property name the stage accepts is among the names   *)
(* it offers in that message.                                              *)
C9_UnknownPropertyOffers ==
    (Len(pipeline) = 1 /\ First.kind \in SearchKinds) =>
        /\ (/\ FirstFolded \/ FirstFoldFailed
            /\ \E j \in 1..Len(First.opargs) : ~has_property(ns, First.opargs[j][1])) =>
               /\ FirstFoldFailed
               /\ error.kind = "unknown_property"
               /\ Range(error.offered) =
                      {property_mappings(ns)[i].name :
                           i \in {h \in 1..Len(property_mappings(ns)) :
                                      property_mappings(ns)[h].list}}
               /\ filter = <<>>
        /\ (FirstFolded /\ First.args = <<>> /\ First.kwargs = <<>>) =>
               \A j \in 1..Len(First.opargs) :
                   First.opargs[j][1] \in Range(ListVisibleNames(ns))

(* C10: exclude with k comparisons contributes k filter terms, in order,   *)
(* each a 'nor' around the one mapped triple; under the conjunction of the *)
(* query a row is kept iff it matches none of the comparisons.             *)
C10_ExcludeNorTerms ==
    (Len(pipeline) = 1 /\ First.kind = "exclude" /\ FirstFolded) =>
        /\ Len(contrib.filter) = Len(First.opargs)
        /\ \A i \in 1..Len(First.opargs) :
               contrib.filter[i] = <<"nor", <<First.opargs[i]>> >>
        /\ filter = contrib.filter
        /\ \A r \in RowPool(ns) :
               MatchAll(r, filter) <=>
                   \A i \in 1..Len(First.opargs) : ~Match(r, First.opargs[i])

(* exclude has folded two comparisons of which a row matches exactly one *)
C10_Witness ==
    /\ Len(pipeline) = 1
    /\ First.kind = "exclude"
    /\ FirstFolded
    /\ Len(First.opargs) = 2
    /\ \E r \in RowPool(ns) :
           Match(r, First.opargs[1]) /\ ~Match(r, First.opargs[2])

----------------------------------------------------------------------------
(* Properties of the session builtins *)

(* The first child of n that carries the name, None when there is none *)
Named(n, name) ==
    LET kids == namespaces(n)
    IN IF \E i \in 1..Len(kids) : NsName(kids[i]) = name
       THEN kids[CHOOSE i \in 1..Len(kids) :
                    /\ NsName(kids[i]) = name
                    /\ \A j \in 1..(i - 1) : NsName(kids[j]) # name]
       ELSE None

(* The last builtin was `cd <path>` or the completion of `cd <path>` *)
RanCd == npc = "ran" /\ last.cmd = "cd" /\ Len(last.args) = 1 /\ last.kwargs = <<>>

RanComplete == npc = "ran" /\ last.cmd = "complete"

CdText == last.args[1]

(* C11: the current path is never empty and starts at the root namespace;  *)
(* `..` pops one level and does nothing at root, so that system/ui from    *)
(* root followed by `..` twice is root again, for cd and for the walk of   *)
(* its completion.                                                         *)
C11_PathStartsAtRoot ==
    /\ Len(path) >= 1
    /\ path[1] = RootNs
    /\ (RanCd /\ CdLine(CdText) = <<"..">>) =>
           path = IF Len(before.path) > 1 THEN Front(before.path) ELSE before.path
    /\ (RanCd /\ before.path = <<RootNs>>
              /\ CdLine(CdText) \in {<<"system", "ui">>, <<"", "system", "ui">>}) =>
           path = <<RootNs, "system", "ui">>
    /\ (RanCd /\ before.path = <<RootNs>>
              /\ CdLine(CdText) = <<"system", "ui", "..", "..">>) =>
           path = <<RootNs>>
    /\ RanComplete => result.ns # None
    /\ (RanComplete /\ before.path = <<RootNs>>
                    /\ CdText.toks \in {<<"..">>, <<"..", "..">>,
                                        <<"system", "ui", "..", "..">>}) =>
           result.ns = RootNs

(* `..` was typed at root after the session had come back up from system *)
C11_Witness ==
    /\ RanCd
    /\ CdLine(CdText) = <<"..">>
    /\ before.path = <<RootNs>>
    /\ before.prev = <<RootNs, "system">>
    /\ path = <<RootNs>>

(* C12: for namespaces a, a/b and a/c that exist, resolving a/b/../c from  *)
(* root ends in the namespace a/c, for cd and for the walk of its          *)
(* completion.                                                             *)
C12_DotDotCancels ==
    \A a \in {"system", "share"}, b \in {"ui", "config"}, c \in {"ui", "config"} :
        LET na == Named(RootNs, a)
            exist == na # None /\ Named(na, b) # None /\ Named(na, c) # None
        IN /\ (RanCd /\ exist /\ CdText.toks = <<a, b, "..", c>>
                     /\ (CdText.abs \/ before.path = <<RootNs>>)) =>
                  /\ result.ok
                  /\ path = <<RootNs, na, Named(na, c)>>
           /\ (RanComplete /\ exist /\ CdText.toks = <<a, b, "..", c>>
                           /\ CdText.slash
                           /\ (CdText.abs \/ before.path = <<RootNs>>)) =>
                  result.ns = Named(na, c)

(* cd system/ui/../config has run at root *)
C12_Witness ==
    /\ RanCd
    /\ before.path = <<RootNs>>
    /\ CdText = Text(FALSE, <<"system", "ui", "..", "config">>, FALSE)
    /\ path = <<RootNs, "system", "config">>

(* The namespace a walk of the text starts in *)
StartNs == IF CdText.abs THEN RootNs ELSE before.path[Len(before.path)]

(* C13: a first token that is a name is looked up among the children of    *)
(* the current namespace: the first child of that name is entered, and a   *)
(* name no child carries makes the resolution fail with a not-found error  *)
(* naming the token, the walk going no further.                            *)
C13_UnknownTokenFails ==
    /\ (RanCd /\ CdText.toks # <<>> /\ CdText.toks[1] \notin {"..", "-"}) =>
           IF Named(StartNs, CdText.toks[1]) = None
           THEN /\ ~result.ok
                /\ result.error.kind = "not_found"
                /\ result.error.key = CdText.toks[1]
                /\ path = before.path
           ELSE Len(CdText.toks) = 1 =>
                    path[Len(path)] = Named(StartNs, CdText.toks[1])
    /\ (RanComplete /\ WalkedTokens(CdText) # <<>>
                    /\ WalkedTokens(CdText)[1] \notin {"..", "-"}) =>
           IF Named(StartNs, WalkedTokens(CdText)[1]) = None
           THEN /\ ~result.ok
                /\ result.error.kind = "not_found"
                /\ result.error.key = WalkedTokens(CdText)[1]
           ELSE Len(WalkedTokens(CdText)) = 1 =>
                    result.ns = Named(StartNs, WalkedTokens(CdText)[1])

(* The last builtin was one navigation step: top, or cd of one token *)
SingleStep ==
    \/ npc = "ran" /\ last.cmd = "top"
    \/ RanCd /\ Len(CdLine(CdText)) = 1

(* C14: the history holds one namespace, the one visited before the        *)
(* current one: a step from A to B leaves A in the slot, and `-` jumps to  *)
(* the namespace in the slot, so that a second `-` is back at B.           *)
C14_DashSingleSlot ==
    /\ (SingleStep /\ path # before.path) => prev = before.path
    /\ (RanCd /\ CdLine(CdText) = <<"-">>) => path = before.prev

(* C15: cd, top, alias and unalias run twice in a row with the same input  *)
(* leave the current path and the alias table as the first run left them.  *)
C15_BuiltinsIdempotent ==
    npc = "retried" => (path = once.path /\ aliases = once.aliases)

(* A cd that names its target from the root: no path, or an absolute path  *)
(* without `-`                                                             *)
CdFromRoot ==
    /\ last.cmd = "cd"
    /\ \/ Len(last.args) # 1
       \/ last.kwargs # <<>>
       \/ CdText.abs /\ \A i \in 1..Len(CdText.toks) : CdText.toks[i] # "-"

(* C15, amended: top, alias and unalias, and cd of an absolute path        *)
(* without `-`, run twice in a row with the same input leave the current   *)
(* path and the alias table as the first run left them.                    *)
C15_IdempotentFromRoot ==
    (npc = "retried" /\ (last.cmd \in {"top", "alias", "unalias"} \/ CdFromRoot)) =>
        (path = once.path /\ aliases = once.aliases)

(* cd /system/ui has moved the session and has run again *)
C15_Witness ==
    /\ npc = "retried"
    /\ last.cmd = "cd"
    /\ last.kwargs = <<>>
    /\ Len(last.args) = 1
    /\ CdText = Text(TRUE, <<"system", "ui">>, FALSE)
    /\ before.path = <<RootNs, "system", "config">>
    /\ path = <<RootNs, "system", "ui">>

----------------------------------------------------------------------------
(* Properties of the commands that submit tasks *)

(* A create that leaves out a required property of its namespace *)
CreateLacks(c) == c.name = "create" /\ Missing(c.ns, c.kwargs) # {}

(* An import without a name or without a non-empty path *)
ImportLacks(c) ==
    c.name = "import" /\ (Len(c.args) = 0 \/ Get(c.kwargs, "path") \in {None, ""})

(* C16: a create without a required property fails with the                *)
(* missing-required-property error that names one of the properties left   *)
(* out, and an import without a name or without a non-empty path fails;    *)
(* neither submits a task nor changes the collection                       *)
C16_MissingRequiredFailsFast ==
    /\ CreateLacks(step) =>
           /\ ~returned.ok
           /\ returned.error.kind = "missing_required"
           /\ \E i \in Missing(step.ns, step.kwargs) :
                  returned.error.key \in required_props(step.ns)[i]
           /\ returned.promise = "none"
           /\ Len(tasks) = prior.ntasks
           /\ items = prior.items
    /\ ImportLacks(step) =>
           /\ ~returned.ok
           /\ returned.error.kind # "none"
           /\ returned.promise = "none"
           /\ Len(tasks) = prior.ntasks
           /\ items = prior.items

(* import sh dataset=tank/x after another command has submitted a task *)
C16_Witness ==
    /\ ImportLacks(step)
    /\ Len(step.args) = 1
    /\ "dataset" \in DOMAIN step.kwargs
    /\ ~returned.ok
    /\ Len(tasks) = 1

(* The task that each submitting command submits *)
TaskOf(name) ==
    CASE name = "remote" -> "cli.eval.ast"
      [] name = "kill" -> "share.terminate_connection"
      [] name = "import" -> "share.import"

(* remote, kill and import that succeed have submitted exactly one task,   *)
(* return a promise bound to its id and leave it executing                 *)
SubmittedOne ==
    (step.name \in {"remote", "kill", "import"} /\ returned.ok) =>
        /\ Len(tasks) = prior.ntasks + 1
        /\ returned.promise # "none"
        /\ returned.tid = Len(tasks)
        /\ tasks[returned.tid].name = TaskOf(step.name)
        /\ tasks[returned.tid].state = "EXECUTING"
        /\ waiting = 0

(* The interpreter starts to wait on a task only in a wait command *)
WaitsOnlyInWait == (waiting' # 0 /\ waiting' # waiting) => step'.name = "wait"

(* C17: remote, kill and import that succeed have submitted exactly one    *)
(* task, return a promise bound to the id of that task, leave the task     *)
(* executing and the interpreter not waiting; the interpreter starts to    *)
(* wait on a task only when wait is invoked                                *)
C17_SubmitOneTaskNoWait == [](SubmittedOne) /\ [][WaitsOnlyInWait]_vars

(* remote after an earlier task has failed *)
C17_Witness ==
    /\ step.name = "remote"
    /\ returned.ok
    /\ returned.tid = 2
    /\ tasks[1].state = "FAILED"
    /\ tasks[2].state = "EXECUTING"
    /\ waiting = 0

----------------------------------------------------------------------------
(* Properties of save and delete in the nested collections *)

(* The entries of the list its that have the primary-key value of e *)
Listed(its, e) == Hits(its, PkName(coll), e[PkName(coll)])

(* The task that just failed had been submitted by a save: the entity is   *)
(* dirty and holds the edits it was saved with, and the list of the parent *)
(* entity still holds them too                                             *)
FailedSaveKeepsEdits ==
    (step.name = "FAILED" /\ done.what = "save") =>
        /\ estate = "dirty"
        /\ this.has
        /\ this.entity = done.edits
        /\ items = done.payload
        /\ \E i \in Listed(items, this.entity) : items.rows[i] = this.entity

(* The entity becomes clean only at the success of a task *)
CleanOnlyOnSuccess ==
    (estate' = "clean" /\ estate # "clean") => step'.name = "FINISHED"

(* C18: when the task submitted by a save fails, the entity is dirty and   *)
(* holds exactly the edits it had before the save, nothing of it replaced  *)
(* by the server state; only a task that succeeds moves it to clean        *)
C18_FailedSaveStaysDirty == [](FailedSaveKeepsEdits) /\ [][CleanOnlyOnSuccess]_vars

(* set secret=t on a stored user, save, and the task fails *)
C18_Witness ==
    /\ step.name = "FAILED"
    /\ done.what = "save"
    /\ coll = "users"
    /\ estate = "dirty"
    /\ this.entity.secret = "t"
    /\ server # items

(* C19: the entity that a delete is about is still listed in its           *)
(* collection after the delete command, while its task has not succeeded,  *)
(* and after the task has failed                                           *)
C19_DeleteOnlyOnSuccess ==
    /\ (step.name = "delete" /\ returned.ok) =>
           Listed(items, tasks[returned.tid].edits) # {}
    /\ (step.name = "FAILED" /\ done.what = "delete") =>
           Listed(items, done.edits) # {}

(* C20: no two entries of the list of a nested collection have the same    *)
(* primary-key value                                                       *)
C20_PrimaryKeyUnique ==
    \A i, j \in 1..Len(items.rows) :
        items.rows[i][PkName(coll)] = items.rows[j][PkName(coll)] => i = j

----------------------------------------------------------------------------
(* source: batches of commands read from files *)

MaxFiles == 3

(* The files on disk: os.path.isfile, whether the bytes decode as utf8, and *)
(* for every command of the file whether it succeeds                       *)
File(isfile, utf8, cmds) == [isfile |-> isfile, utf8 |-> utf8, cmds |-> cmds]

Files ==
    [one |-> File(TRUE, TRUE, <<"ok">>),
     two |-> File(TRUE, TRUE, <<"ok", "ok">>),
     bad |-> File(TRUE, TRUE, <<"ok", "fail", "ok">>),
     bin |-> File(TRUE, FALSE, <<"ok">>),
     gone |-> File(FALSE, TRUE, <<>>)]

(* The commands run so far, each <<position of its file, its index>>, and  *)
(* the exception that ended the batch                                      *)
Sourced(ok, e, ran) == [ok |-> ok, error |-> e, ran |-> ran]

(* context.eval_block: the commands in order, up to the first that fails   *)
EvalBlock(k, cmds) ==
    LET fails == {i \in 1..Len(cmds) : cmds[i] = "fail"}
        upto == IF fails = {} THEN Len(cmds) ELSE Least(fails)
    IN Sourced(fails = {}, IF fails = {} THEN NoError ELSE Raise("CommandFailed"),
               [i \in 1..upto |-> <<k, i>>])

RECURSIVE SourceLoopSkipsMissing(_, _, _)
RECURSIVE SourceLoop(_, _, _)

(* A loop that goes on to the next file when a file does not exist *)
SourceLoopSkipsMissing(args, k, ran) ==
    IF k > Len(args)
    THEN Sourced(TRUE, NoError, ran)
    ELSE LET f == Files[args[k]]
         IN IF ~f.isfile
            THEN SourceLoopSkipsMissing(args, k + 1, ran)
            ELSE IF ~f.utf8
            THEN Sourced(FALSE, CommandException("filetype"), ran)
            ELSE LET block == EvalBlock(k, f.cmds)
                 IN IF ~block.ok
                    THEN Sourced(FALSE, block.error, ran \o block.ran)
                    ELSE SourceLoopSkipsMissing(args, k + 1, ran \o block.ran)

(* for arg in args: isfile, open, decode, parse, eval_block *)
SourceLoop(args, k, ran) ==
    IF k > Len(args)
    THEN Sourced(TRUE, NoError, ran)
    ELSE LET f == Files[args[k]]
         IN IF ~f.isfile
            THEN Sourced(FALSE, CommandException("exist"), ran)
            ELSE IF ~f.utf8
            THEN Sourced(FALSE, CommandException("filetype"), ran)
            ELSE LET block == EvalBlock(k, f.cmds)
                 IN IF ~block.ok
                    THEN Sourced(FALSE, block.error, ran \o block.ran)
                    ELSE SourceLoop(args, k + 1, ran \o block.ran)

(* SourceCommand.run *)
SourceRun(args) ==
    IF Len(args) = 0
    THEN Sourced(FALSE, CommandException("filename"), <<>>)
    ELSE SourceLoop(args, 1, <<>>)

(* source f1 f2 ... *)
Source ==
    \E args \in SeqsUpTo(DOMAIN Files, MaxFiles) :
        /\ call' = Call("source", args)
        /\ answer' = SourceRun(args)
        /\ subject' = SourceRun(args).ran
        /\ UNCHANGED pipevars
        /\ UNCHANGED navvars
        /\ UNCHANGED crudvars

SourceInit == PipeIdle /\ NavStart /\ CrudStart /\ CallStart

SourceNext == Source

(* A session that runs batches *)
SourceSpec == SourceInit /\ [][SourceNext]_vars

(* The file at position k of the batch runs to its end *)
RunsThrough(args, k) ==
    /\ Files[args[k]].isfile
    /\ Files[args[k]].utf8
    /\ \A i \in 1..Len(Files[args[k]].cmds) : Files[args[k]].cmds[i] = "ok"

(* The command i of the file at position k is reached: every file before   *)
(* it runs to its end, its file can be read, no command before it fails    *)
Reached(args, k, i) ==
    /\ \A j \in 1..(k - 1) : RunsThrough(args, j)
    /\ Files[args[k]].isfile
    /\ Files[args[k]].utf8
    /\ i \in 1..Len(Files[args[k]].cmds)
    /\ \A h \in 1..(i - 1) : Files[args[k]].cmds[h] = "ok"

Ran(r) == {r[n] : n \in 1..Len(r)}

(* The batch ran in the order given, and stopped at the first failure *)
InOrderUpToFailure ==
    call.name = "source" =>
        /\ \A n, o \in 1..Len(answer.ran) :
               n < o => \/ answer.ran[n][1] < answer.ran[o][1]
                        \/ /\ answer.ran[n][1] = answer.ran[o][1]
                           /\ answer.ran[n][2] < answer.ran[o][2]
        /\ Ran(answer.ran) =
               {<<k, i>> \in (1..Len(call.args)) \X (1..3) : Reached(call.args, k, i)}
        /\ answer.ok = (/\ Len(call.args) > 0
                        /\ \A k \in 1..Len(call.args) : RunsThrough(call.args, k))

(* C21: source runs the files in the order given and stops at the first    *)
(* failure, and nothing of a batch that fails has been run                 *)
C21_SourceAbortsWholeBatch ==
    /\ InOrderUpToFailure
    /\ (call.name = "source" /\ ~answer.ok) => answer.ran = <<>>

(* C21, amended: source runs the files in the order given and stops at the *)
(* first failure: the commands that ran are exactly those before the first *)
(* failing command, missing file or undecodable file, with the failing     *)
(* command itself                                                          *)
C21_SourceStopsAtFirstFailure == InOrderUpToFailure

(* source two bad one: both commands of two and two commands of bad ran *)
C21_Witness ==
    /\ call = Call("source", <<"two", "bad", "one">>)
    /\ ~answer.ok
    /\ answer.ran = <<<<1, 1>>, <<1, 2>>, <<2, 1>>, <<2, 2>>>>

----------------------------------------------------------------------------
(* pending: the tasks of this session in the process-wide table *)

MaxPending == 3

SessionIds == {1, 2}

TaskStates == {"CREATED", "EXECUTING"}

(* context.session_id and context.pending_tasks: the entries by task id,   *)
(* kept here in the order of the ids                                       *)
Context(sid, pending_tasks, next) ==
    [session_id |-> sid, pending_tasks |-> pending_tasks, next |-> next]

(* A pending command that lists the whole table *)
PendingRunAll(context) == Table(context.pending_tasks)

(* PendingCommand.run *)
PendingRun(context) ==
    Table(SelectSeq(context.pending_tasks,
                    LAMBDA t : t.session = context.session_id))

(* A task of some session is created: the table gets its entry *)
TaskCreated ==
    \E s \in SessionIds, st \in TaskStates :
        /\ subject.next <= MaxPending
        /\ subject' = Context(subject.session_id,
                              Append(subject.pending_tasks,
                                     [id |-> subject.next, session |-> s, state |-> st]),
                              subject.next + 1)
        /\ call' = Call("task_created", <<>>)
        /\ answer' = NoError
        /\ UNCHANGED pipevars
        /\ UNCHANGED navvars
        /\ UNCHANGED crudvars

(* A task has ended: its entry leaves the table *)
TaskRemoved ==
    \E i \in 1..Len(subject.pending_tasks) :
        /\ subject' = [subject EXCEPT !.pending_tasks =
                          SelectSeq(subject.pending_tasks,
                                    LAMBDA t : t.id # subject.pending_tasks[i].id)]
        /\ call' = Call("task_removed", <<>>)
        /\ answer' = NoError
        /\ UNCHANGED pipevars
        /\ UNCHANGED navvars
        /\ UNCHANGED crudvars

Pending ==
    /\ call' = Call("pending", <<>>)
    /\ answer' = PendingRun(subject)
    /\ UNCHANGED subject
    /\ UNCHANGED pipevars
    /\ UNCHANGED navvars
    /\ UNCHANGED crudvars

PendingInit ==
    /\ PipeIdle
    /\ NavStart
    /\ CrudStart
    /\ \E sid \in SessionIds : subject = Context(sid, <<>>, 1)
    /\ call = Call("none", <<>>)
    /\ answer = NoError

PendingNext ==
    \/ TaskCreated
    \/ TaskRemoved
    \/ Pending

(* Sessions that submit tasks, and one of them listing its own *)
PendingSpec == PendingInit /\ [][PendingNext]_vars

Rows(t) == {t.rows[n] : n \in 1..Len(t.rows)}

(* C22: pending lists exactly the entries of the table whose session is    *)
(* the session of the context: none of another session, every one of its   *)
(* own, each once                                                          *)
C22_PendingOwnSession ==
    call.name = "pending" =>
        /\ Rows(answer) = {t \in Rows([rows |-> subject.pending_tasks]) :
                              t.session = subject.session_id}
        /\ Cardinality(Rows(answer)) = Len(answer.rows)

(* Two tasks of the session and one of another session in the table *)
C22_Witness ==
    /\ call.name = "pending"
    /\ Len(subject.pending_tasks) = 3
    /\ Len(answer.rows) = 2

----------------------------------------------------------------------------
(* The target of a share: the setters of dataset, parent and path *)

(* Strings whose characters matter are sequences of characters *)
Chars(s) ==
    CASE s = "" -> <<>>
      [] s = "t" -> <<"t">>
      [] s = "t/" -> <<"t", "/">>
      [] s = "/m" -> <<"/", "m">>
      [] s = "s" -> <<"s">>
      [] s = "s2" -> <<"s", "2">>

(* os.path.join(a, b) *)
Join(a, b) ==
    IF b # <<>> /\ b[1] = "/" THEN b
    ELSE IF a = <<>> \/ a[Len(a)] = "/" THEN a \o b
    ELSE a \o <<"/">> \o b

(* A share namespace, type(self) is ISCSISharesNamespace or not, and the   *)
(* entity its setters write                                                *)
Share(kind, entity) == [kind |-> kind, entity |-> entity]

(* A parent setter that leaves target_type as it is *)
set_share_parent_path_only(self, obj, value) ==
    [obj EXCEPT !.target_path = Join(value, obj.name)]

set_share_dataset(self, obj, value) ==
    [obj EXCEPT !.target_path = value,
                !.target_type = IF self = "iscsi" THEN "ZVOL" ELSE "DATASET"]

set_share_parent(self, obj, value) ==
    [obj EXCEPT !.target_path = Join(value, obj.name),
                !.target_type = IF self = "iscsi" THEN "ZVOL" ELSE "DATASET"]

set_share_path(self, obj, value) ==
    [obj EXCEPT !.target_path = value,
                !.target_type = IF self = "iscsi" THEN "FILE" ELSE "DIRECTORY"]

ShareKinds == {"nfs", "iscsi"}

ShareNames == {Chars("s"), Chars("s2")}

TargetValues == {Chars(""), Chars("t"), Chars("t/"), Chars("/m")}

TargetTypes(kind) == IF kind = "iscsi" THEN {"ZVOL", "FILE"} ELSE {"DATASET", "DIRECTORY"}

(* The setter of the property prop *)
SetShare(prop, value) ==
    /\ call' = Call(prop, <<value>>)
    /\ answer' = NoError
    /\ subject' = Share(subject.kind,
           CASE prop = "dataset" -> set_share_dataset(subject.kind, subject.entity, value)
             [] prop = "parent" -> set_share_parent(subject.kind, subject.entity, value)
             [] prop = "path" -> set_share_path(subject.kind, subject.entity, value))
    /\ UNCHANGED pipevars
    /\ UNCHANGED navvars
    /\ UNCHANGED crudvars

SetDataset == \E value \in TargetValues : SetShare("dataset", value)

SetParent == \E value \in TargetValues : SetShare("parent", value)

SetPath == \E value \in TargetValues : SetShare("path", value)

ShareInit ==
    /\ PipeIdle
    /\ NavStart
    /\ CrudStart
    /\ \E kind \in ShareKinds, name \in ShareNames, enabled \in BOOLEAN :
           \E type \in TargetTypes(kind) :
               subject = Share(kind, [name |-> name, enabled |-> enabled,
                                      target_path |-> Chars("/m"),
                                      target_type |-> type])
    /\ call = Call("none", <<>>)
    /\ answer = NoError

ShareNext ==
    \/ SetDataset
    \/ SetParent
    \/ SetPath

(* Sets of the target properties of one share *)
ShareSpec == ShareInit /\ [][ShareNext]_vars

(* The pair reflects the set that came last *)
TargetOfLastSet ==
    LET e == subject.entity
        value == call.args[1]
        iscsi == subject.kind = "iscsi"
    IN /\ call.name = "dataset" =>
              /\ e.target_path = value
              /\ e.target_type = IF iscsi THEN "ZVOL" ELSE "DATASET"
       /\ call.name = "parent" =>
              /\ e.target_path = Join(value, e.name)
              /\ e.target_type = IF iscsi THEN "ZVOL" ELSE "DATASET"
       /\ call.name = "path" =>
              /\ e.target_path = value
              /\ e.target_type = IF iscsi THEN "FILE" ELSE "DIRECTORY"

(* A set writes no field but target_path and target_type *)
TargetOnly ==
    /\ DOMAIN subject'.entity = DOMAIN subject.entity
    /\ \A f \in DOMAIN subject.entity \ {"target_path", "target_type"} :
           subject'.entity[f] = subject.entity[f]

(* C23: after any sequence of sets of dataset, parent and path on a share, *)
(* target_path and target_type are those of the set that came last, and    *)
(* no set changes another field of the entity                              *)
C23_TargetPairOfLastSet == [](TargetOfLastSet) /\ [][TargetOnly]_vars

(* path, then parent on an nfs share: the type is back to DATASET *)
C23_Witness ==
    /\ call = Call("parent", <<Chars("t")>>)
    /\ subject.kind = "nfs"
    /\ subject.entity.name = Chars("s")
    /\ subject.entity.target_path = <<"t", "/", "s">>
    /\ subject.entity.target_type = "DATASET"

----------------------------------------------------------------------------
(* The property mappings of the share namespaces *)

ShareTypes == {"nfs", "afp", "smb", "webdav", "iscsi"}

ShareNamespaces == ShareTypes \cup {"portals", "auth", "users", "targets", "luns"}

Names(pm) == [i \in 1..Len(pm) |-> pm[i].name]

(* A webdav namespace that adds a second name property *)
AddedNamesTwice(n) ==
    CASE n = "nfs" ->
        <<"alldirs", "read_only", "root_user", "root_group", "all_user",
          "all_group", "hosts", "security">>
      [] n = "afp" ->
        <<"hosts_allow", "hosts_deny", "users_allow", "groups_allow",
          "users_deny", "groups_deny", "ro_users", "ro_groups", "rw_users",
          "rw_groups", "read_only", "time_machine", "zero_dev_numbers",
          "no_stat", "afp3_privileges", "smb_compatible">>
      [] n = "smb" ->
        <<"hosts_allow", "hosts_deny", "users_allow", "groups_allow",
          "users_deny", "groups_deny", "read_only", "guest_ok",
          "guest_only", "browseable", "show_hidden_files",
          "previous_versions", "recyclebin", "vfs_objects",
          "full_audit_prefix", "full_audit_priority", "full_audit_failure",
          "full_audit_success", "case_sensitive",
          "allocation_roundup_size", "ea_support", "store_dos_attributes",
          "map_archive", "map_hidden", "map_readonly", "map_system",
          "fruit_metadata">>
      [] n = "webdav" ->
        <<"show_hidden_files", "read_only", "permission", "name">>
      [] n = "iscsi" ->
        <<"serial", "size", "block_size", "physical_block_size", "rpm">>
      [] n = "portals" ->
        <<"name", "discovery_auth_group", "listen">>
      [] n = "auth" ->
        <<"name", "policy">>
      [] n = "targets" ->
        <<"name", "description", "auth_group", "portal_group">>
      [] n = "luns" ->
        <<"number", "name">>
      [] n = "users" -> Names(ISCSIUsersProperties)

(* The names of the add_property calls of the __init__ of each class, in  *)
(* order                                                                 *)
AddedNames(n) ==
    CASE n = "nfs" ->
        <<"alldirs", "read_only", "root_user", "root_group", "all_user",
          "all_group", "hosts", "security">>
      [] n = "afp" ->
        <<"hosts_allow", "hosts_deny", "users_allow", "groups_allow",
          "users_deny", "groups_deny", "ro_users", "ro_groups", "rw_users",
          "rw_groups", "read_only", "time_machine", "zero_dev_numbers",
          "no_stat", "afp3_privileges", "smb_compatible">>
      [] n = "smb" ->
        <<"hosts_allow", "hosts_deny", "users_allow", "groups_allow",
          "users_deny", "groups_deny", "read_only", "guest_ok",
          "guest_only", "browseable", "show_hidden_files",
          "previous_versions", "recyclebin", "vfs_objects",
          "full_audit_prefix", "full_audit_priority", "full_audit_failure",
          "full_audit_success", "case_sensitive",
          "allocation_roundup_size", "ea_support", "store_dos_attributes",
          "map_archive", "map_hidden", "map_readonly", "map_system",
          "fruit_metadata">>
      [] n = "webdav" ->
        <<"show_hidden_files", "read_only", "permission">>
      [] n = "iscsi" ->
        <<"serial", "size", "block_size", "physical_block_size", "rpm">>
      [] n = "portals" ->
        <<"name", "discovery_auth_group", "listen">>
      [] n = "auth" ->
        <<"name", "policy">>
      [] n = "targets" ->
        <<"name", "description", "auth_group", "portal_group">>
      [] n = "luns" ->
        <<"number", "name">>
      [] n = "users" -> Names(ISCSIUsersProperties)

(* A share namespace starts with the properties of BaseSharesNamespace *)
PropertyNames(n) ==
    IF n \in ShareTypes THEN Names(BaseSharesProperties) \o AddedNames(n)
    ELSE AddedNames(n)

(* The namespace n with the properties added so far *)
Building(n, names) == [ns |-> n, names |-> names]

(* The next add_property call of the __init__ of the namespace *)
AddProperty ==
    /\ call.name \in {"__init__", "add_property"}
    /\ Len(subject.names) < Len(PropertyNames(subject.ns))
    /\ subject' = Building(subject.ns,
                           Append(subject.names,
                                  PropertyNames(subject.ns)[Len(subject.names) + 1]))
    /\ call' = Call("add_property", <<>>)
    /\ UNCHANGED answer
    /\ UNCHANGED pipevars
    /\ UNCHANGED navvars
    /\ UNCHANGED crudvars

NamespaceInit ==
    /\ PipeIdle
    /\ NavStart
    /\ CrudStart
    /\ \E n \in ShareNamespaces : subject = Building(n, <<>>)
    /\ call = Call("__init__", <<>>)
    /\ answer = NoError

NamespaceNext == AddProperty

(* The construction of the share namespaces *)
NamespaceSpec == NamespaceInit /\ [][NamespaceNext]_vars

(* C24: in every share namespace, while it is built and when it is         *)
(* complete, no two property mappings have the same name                   *)
C24_PropertyNamesUnique ==
    call.name \in {"__init__", "add_property"} =>
        \A i, j \in 1..Len(subject.names) :
            subject.names[i] = subject.names[j] => i = j

(* The smb namespace with all of its properties *)
C24_Witness ==
    /\ call.name = "add_property"
    /\ subject.ns = "smb"
    /\ subject.names = PropertyNames("smb")
    /\ Len(subject.names) = 39

----------------------------------------------------------------------------
(* history: the lines that readline keeps *)

MaxHistory == 4

HistoryLines == {"show", "top"}

(* HistoryCommand.run over the lines 1..Len(lines) of readline *)
HistoryRun(lines, args) ==
    IF Len(args) > 1
    THEN RunFail(CommandException("syntax"))
    ELSE IF Len(args) = 1 /\ args[1].t # "int"
    THEN RunFail(CommandException("integer"))
    ELSE LET length == Len(lines)
             histroy_range == IF Len(args) = 1 /\ args[1].n < length
                              THEN args[1].n + 1
                              ELSE length
         IN RunOk(Table([i \in 1..(histroy_range - 1) |-> [cmd |-> lines[i]]]))

(* readline records the line that was typed *)
TypeLine ==
    \E line \in HistoryLines :
        /\ Len(subject) < MaxHistory
        /\ subject' = Append(subject, line)
        /\ call' = Call("readline", <<>>)
        /\ answer' = NoError
        /\ UNCHANGED pipevars
        /\ UNCHANGED navvars
        /\ UNCHANGED crudvars

History ==
    \E args \in {<<>>, <<StrArg("all")>>, <<IntArg(1), IntArg(2)>>}
                \cup {<<IntArg(n)>> : n \in 0..MaxHistory} :
        /\ call' = Call("history", args)
        /\ answer' = HistoryRun(subject, args)
        /\ UNCHANGED subject
        /\ UNCHANGED pipevars
        /\ UNCHANGED navvars
        /\ UNCHANGED crudvars

HistoryInit ==
    /\ PipeIdle
    /\ NavStart
    /\ CrudStart
    /\ subject = <<>>
    /\ call = Call("none", <<>>)
    /\ answer = NoError

HistoryNext ==
    \/ TypeLine
    \/ History

(* A session that types lines and lists its history *)
HistorySpec == HistoryInit /\ [][HistoryNext]_vars

(* The last n of the lines, as the rows of the table *)
LastLines(lines, n) == [i \in 1..n |-> [cmd |-> lines[Len(lines) - n + i]]]

(* C25: history n lists the n most recent lines when the history holds     *)
(* more than n lines, and history without an argument lists every line     *)
C25_HistoryMostRecent ==
    (call.name = "history" /\ answer.ok) =>
        /\ (Len(call.args) = 1 /\ call.args[1].n < Len(subject)) =>
               answer.value.rows = LastLines(subject, call.args[1].n)
        /\ Len(call.args) = 0 =>
               answer.value.rows = LastLines(subject, Len(subject))

----------------------------------------------------------------------------
(* show | tail n over entries that carry a timestamp *)

(* Entries of a data-source namespace with the timestamp property *)
Stamped == {[name |-> "root", timestamp |-> t] : t \in 1..(MaxRows + 1)}

TailStores(n) == IF n = "nfs" THEN SeqsUpTo(Stamped, MaxRows) ELSE Stores(n)

(* The pipeline `show | tail args`: the stage folds its contribution into  *)
(* the query, show runs the query, the stage's run hands the table on      *)
TailPipeline(n, rows, args) ==
    LET ser == TailSerializeFilter(n, args, <<>>, <<>>)
    IN IF ~ser.ok
       THEN [ok |-> FALSE, error |-> ser.error, params |-> EmptyParams,
             value |-> NoValue]
       ELSE [ok |-> TRUE, error |-> NoError,
             params |-> Update(EmptyParams, ser.params),
             value |-> TailRun(n, args, <<>>, <<>>,
                               ListCommandRun(n, rows, ser.filter, ser.params))]

ShowTail ==
    \E args \in NumberArgs :
        /\ call' = Call("tail", args)
        /\ answer' = TailPipeline(subject.ns, subject.rows, args)
        /\ UNCHANGED subject
        /\ UNCHANGED pipevars
        /\ UNCHANGED navvars
        /\ UNCHANGED crudvars

TailInit ==
    /\ PipeIdle
    /\ NavStart
    /\ CrudStart
    /\ \E n \in Namespaces : \E rows \in TailStores(n) :
           subject = [ns |-> n, rows |-> rows]
    /\ call = Call("none", <<>>)
    /\ answer = NoError

TailNext == ShowTail

(* One tail stage after show, over every store *)
TailSpec == TailInit /\ [][TailNext]_vars

Stamp(row) == Rank(row, "timestamp")

(* out holds the n entries of rows with the greatest timestamps, all of    *)
(* them when rows has fewer, in the order of the timestamps                *)
LastEntries(out, rows, n) ==
    /\ Len(out) = Min(n, Len(rows))
    /\ \A i, j \in 1..Len(out) : i < j => Stamp(out[i]) <= Stamp(out[j])
    /\ \E f \in [1..Len(out) -> 1..Len(rows)] :
           /\ \A i, j \in 1..Len(out) : f[i] = f[j] => i = j
           /\ \A i \in 1..Len(out) : out[i] = rows[f[i]]
           /\ \A j \in 1..Len(rows) :
                  (\A i \in 1..Len(out) : f[i] # j) =>
                      \A i \in 1..Len(out) : Stamp(rows[j]) <= Stamp(out[i])

OneInteger(args) == Len(args) = 1 /\ args[1].t = "int"

(* C26: tail with anything but one integer fails and contributes nothing;  *)
(* tail n contributes sort by descending timestamp, limit n and reverse,   *)
(* and show | tail n returns the n entries with the greatest timestamps,   *)
(* all entries when there are fewer                                        *)
C26_TailLastEntries ==
    call.name = "tail" =>
        IF OneInteger(call.args)
        THEN /\ answer.ok
             /\ answer.params = [sort |-> <<StrArg("-timestamp")>>,
                                 limit |-> call.args[1].n,
                                 reverse |-> TRUE]
             /\ answer.value.kind = "table"
             /\ LastEntries(answer.value.rows, subject.rows, call.args[1].n)
        ELSE /\ ~answer.ok
             /\ answer.params = EmptyParams

----------------------------------------------------------------------------
(* The listen property of an iSCSI portal *)

MaxListen == 2

DefaultPort == 3260

(* The items of a listen value, as sequences of characters: a stands for   *)
(* an address, 8 for a digit, x for any other character                    *)
ListenItems ==
    {<<"a">>, <<"a", ":", "8">>, <<"a", ":", "8", "8">>, <<"a", ":", "x">>,
     <<"a", ":">>, <<"a", ":", "8", ":", "x">>}

Colons(s) == {i \in 1..Len(s) : s[i] = ":"}

(* item.split(':', 2): at most two splits, the rest stays in the last part *)
Split2(s) ==
    IF Colons(s) = {} THEN <<s>>
    ELSE LET c1 == Least(Colons(s))
             later == {i \in Colons(s) : i > c1}
         IN IF later = {}
            THEN <<SubSeq(s, 1, c1 - 1), SubSeq(s, c1 + 1, Len(s))>>
            ELSE <<SubSeq(s, 1, c1 - 1),
                   SubSeq(s, c1 + 1, Least(later) - 1),
                   SubSeq(s, Least(later) + 1, Len(s))>>

(* str.isdigit: not empty and digits only *)
IsDigit(s) == Len(s) > 0 /\ \A i \in 1..Len(s) : s[i] = "8"

(* int() of a string of digits *)
ToInt(s) ==
    LET F[i \in 0..Len(s)] == IF i = 0 THEN 0 ELSE 10 * F[i - 1] + 8
    IN F[Len(s)]

(* pack(item) of set_portals *)
Pack(item) ==
    LET ret == Split2(item)
    IN IF Len(ret) > 1 /\ ~IsDigit(ret[2])
       THEN [ok |-> FALSE, error |-> CommandException("port"),
             address |-> <<>>, port |-> 0]
       ELSE [ok |-> TRUE, error |-> NoError, address |-> ret[1],
             port |-> IF Len(ret) = 2 THEN ToInt(ret[2]) ELSE DefaultPort]

Packed(p) == [address |-> p.address, port |-> p.port]

(* A set that stores the items one by one, up to the first that fails *)
set_portals_one_by_one(obj, value) ==
    LET bad == {i \in 1..Len(value) : ~Pack(value[i]).ok}
    IN IF bad = {}
       THEN [ok |-> TRUE, error |-> NoError,
             obj |-> [obj EXCEPT !.listen =
                         [i \in 1..Len(value) |-> Packed(Pack(value[i]))]]]
       ELSE [ok |-> FALSE, error |-> Pack(value[Least(bad)]).error,
             obj |-> [obj EXCEPT !.listen =
                         [i \in 1..(Least(bad) - 1) |-> Packed(Pack(value[i]))]]]

(* ISCSIPortalsNamespace.set_portals: obj['listen'] = list(map(pack, value)) *)
set_portals(obj, value) ==
    LET bad == {i \in 1..Len(value) : ~Pack(value[i]).ok}
    IN IF bad = {}
       THEN [ok |-> TRUE, error |-> NoError,
             obj |-> [obj EXCEPT !.listen =
                         [i \in 1..Len(value) |-> Packed(Pack(value[i]))]]]
       ELSE [ok |-> FALSE, error |-> Pack(value[Least(bad)]).error, obj |-> obj]

(* set listen=<value> on the portal *)
SetListen ==
    \E value \in SeqsUpTo(ListenItems, MaxListen) :
        LET r == set_portals(subject, value)
        IN /\ call' = Call("listen", value)
           /\ answer' = [ok |-> r.ok, error |-> r.error]
           /\ subject' = r.obj
           /\ UNCHANGED pipevars
           /\ UNCHANGED navvars
           /\ UNCHANGED crudvars

PortalInit ==
    /\ PipeIdle
    /\ NavStart
    /\ CrudStart
    /\ subject = [id |-> "portal", listen |-> <<>>]
    /\ call = Call("none", <<>>)
    /\ answer = NoError

PortalNext == SetListen

(* Sets of the listen property of one portal *)
PortalSpec == PortalInit /\ [][PortalNext]_vars

(* The text of the item before its first colon, all of it without a colon *)
AddressOf(item) ==
    IF Colons(item) = {} THEN item ELSE SubSeq(item, 1, Least(Colons(item)) - 1)

(* The digits written after the first colon of the item *)
PortDigits(item) ==
    LET c1 == Least(Colons(item))
        stop == {i \in (c1 + 1)..Len(item) : item[i] # "8"}
    IN SubSeq(item, c1 + 1, IF stop = {} THEN Len(item) ELSE Least(stop) - 1)

(* C27: a set of listen that succeeds stores for every item the address    *)
(* before the first colon, the port number written after it when there is  *)
(* one, and the default port only for an item without a port               *)
C27_ListenKeepsPort ==
    (call.name = "listen" /\ answer.ok) =>
        /\ Len(subject.listen) = Len(call.args)
        /\ \A i \in 1..Len(call.args) :
               /\ subject.listen[i].address = AddressOf(call.args[i])
               /\ IF Colons(call.args[i]) = {}
                  THEN subject.listen[i].port = DefaultPort
                  ELSE subject.listen[i].port = ToInt(PortDigits(call.args[i]))

(* Some item of the value has a port that is not a number *)
BadPort(value) ==
    \E i \in 1..Len(value) : Len(Split2(value[i])) > 1 /\ ~IsDigit(Split2(value[i])[2])

(* A set with a bad port fails with a command error and writes nothing *)
FailedSetWritesNothing ==
    (call'.name = "listen" /\ BadPort(call'.args)) =>
        /\ ~answer'.ok
        /\ answer'.error.kind = "CommandException"
        /\ subject' = subject

(* C30: a set of listen whose value has an item with a non-numeric port    *)
(* fails with a command error and leaves the stored listen list as it was, *)
(* also when items before that one are valid                               *)
C30_ListenAllOrNothing == [][FailedSetWritesNothing]_vars

(* a:8 then a:x is refused while the portal listens on a:88 *)
C30_Witness ==
    /\ call = Call("listen", <<<<"a", ":", "8">>, <<"a", ":", "x">>>>)
    /\ ~answer.ok
    /\ subject.listen = <<[address |-> <<"a">>, port |-> 88]>>

----------------------------------------------------------------------------
(* Renaming an entity of a nested collection *)

(* The save that came last was of an entity whose key had been changed *)
RenamedSave == step.name = "save" /\ this.entity[PkName(coll)] # this.key

(* C28: the save of a renamed user or lun succeeds, writes the entity into *)
(* the entry it was loaded from and leaves every other entry of the        *)
(* parent's list as it was                                                 *)
C28_RenameUpdatesOwnEntry ==
    RenamedSave =>
        /\ returned.ok
        /\ Len(items.rows) = Len(prior.items.rows)
        /\ \A i \in 1..Len(items.rows) :
               IF prior.items.rows[i][PkName(coll)] = this.key
               THEN items.rows[i] = this.entity
               ELSE items.rows[i] = prior.items.rows[i]

----------------------------------------------------------------------------
(* find_share_namespace: from a task to the namespace class of its share *)

MaxShares == 2

(* Python values that are compared with ==: a str and a dict are never equal *)
PyStr(s) == [py |-> "str", s |-> s, d |-> <<>>]

PyDict(d) == [py |-> "dict", s |-> "", d |-> d]

PyNone == [py |-> "None", s |-> "", d |-> <<>>]

(* v == 'literal' *)
EqualsStr(v, literal) == v.py = "str" /\ v.s = literal

(* context.entity_subscribers['share'].query(('id', '=', id), single=True): *)
(* the share with that id, None when there is none                         *)
QuerySingle(shares, id) ==
    IF id \in DOMAIN shares THEN PyDict([id |-> id, type |-> shares[id]]) ELSE PyNone

(* The chain of comparisons that ends find_share_namespace *)
NamespaceFor(share_type) ==
    IF EqualsStr(share_type, "smb") THEN "SMBSharesNamespace"
    ELSE IF EqualsStr(share_type, "nfs") THEN "NFSSharesNamespace"
    ELSE IF EqualsStr(share_type, "afp") THEN "AFPSharesNamespace"
    ELSE IF EqualsStr(share_type, "webdav") THEN "WebDAVSharesNamespace"
    ELSE IF EqualsStr(share_type, "iscsi") THEN "ISCSISharesNamespace"
    ELSE None

find_share_namespace(shares, task) ==
    IF task.name = "share.create"
    THEN NamespaceFor(PyStr(task.args[1].type))
    ELSE IF task.name = "share.update"
    THEN NamespaceFor(QuerySingle(shares, task.args[1]))
    ELSE None

ShareIds == 1..MaxShares

(* The shares of the store, each id with its type *)
ShareStores == UNION {[ids -> ShareTypes] : ids \in SUBSET ShareIds}

ShareTasks ==
    {[name |-> "share.create", args |-> <<[type |-> t]>>] : t \in ShareTypes \cup {"ftp"}}
    \cup {[name |-> n, args |-> <<id>>] :
             n \in {"share.update", "share.delete", "share.import"},
             id \in 1..(MaxShares + 1)}

(* A task of the share.* family is mapped to its namespace *)
MapTask ==
    \E task \in ShareTasks :
        /\ call' = Call("find_share_namespace", <<task>>)
        /\ answer' = find_share_namespace(subject, task)
        /\ UNCHANGED subject
        /\ UNCHANGED pipevars
        /\ UNCHANGED navvars
        /\ UNCHANGED crudvars

FindInit ==
    /\ PipeIdle
    /\ NavStart
    /\ CrudStart
    /\ subject \in ShareStores
    /\ call = Call("none", <<>>)
    /\ answer = NoError

FindNext == MapTask

(* Tasks mapped to namespaces over every store of shares *)
FindSpec == FindInit /\ [][FindNext]_vars

(* The namespace class of the share type t *)
ClassOf(t) ==
    CASE t = "smb" -> "SMBSharesNamespace"
      [] t = "nfs" -> "NFSSharesNamespace"
      [] t = "afp" -> "AFPSharesNamespace"
      [] t = "webdav" -> "WebDAVSharesNamespace"
      [] t = "iscsi" -> "ISCSISharesNamespace"

(* C29: for a share.create task of a share of type T and for a             *)
(* share.update task on a share of the store that has type T,              *)
(* find_share_namespace returns the namespace class of T; for every other  *)
(* task name it returns nothing                                            *)
C29_FindShareNamespace ==
    call.name = "find_share_namespace" =>
        LET task == call.args[1]
        IN /\ (task.name = "share.create" /\ task.args[1].type \in ShareTypes) =>
                  answer = ClassOf(task.args[1].type)
           /\ (task.name = "share.update" /\ task.args[1] \in DOMAIN subject) =>
                  answer = ClassOf(subject[task.args[1]])
           /\ task.name \notin {"share.create", "share.update"} => answer = None

====
